---------------------------- MODULE Spec2Model ----------------------------
(***************************************************************************)
(* Block ciphers and modes of operation: the GOST R 34.13-2015 modes       *)
(* (CBC, CFB, OFB, CTR), the full-block CFB mode, the autodetect AES       *)
(* dispatcher and Triple-DES.                                              *)
(*                                                                         *)
(* A byte is a number in 0..255, a block a sequence of bytes.  Every mode  *)
(* object is a record of its struct's fields.  One variable holds each     *)
(* component under verification together with the data that went through   *)
(* it; a specification exercises one component and leaves the others idle. *)
(***************************************************************************)
EXTENDS Integers, Sequences, FiniteSets, TLC

VARIABLES cbc, gcfb, cfb, ctr, ofb, aes, tdes

vars == <<cbc, gcfb, cfb, ctr, ofb, aes, tdes>>

\* A component that the running specification does not exercise.
Idle == [comp |-> "idle"]

--------------------------------------------------------------------------
(* Bounds of the exploration *)

\* Block size of the block cipher the modes are instantiated with, in bytes.
BlockBytes == 2
\* Largest ring size Z (IV length in blocks) explored for GOST CBC and OFB.
MaxZ == 3
\* Largest number of blocks pushed through one mode instance.
MaxBlocks == 4

\* Keys of the block cipher the modes are instantiated with.
Keys == {3, 200}
\* Seeds of the data blocks fed to the modes; seed 0 is the all-zero block.
DataSeeds == {0, 1, 2}
\* Seeds of the IVs given to the modes.
IvSeeds == {1, 5}

\* The byte string of length n made from a seed.
MkBytes(seed, n) == [i \in 1..n |-> (seed * (i + 2) * 41) % 256]

\* n consecutive blocks of bs bytes each, made from a seed, as one byte string.
MkIv(seed, n, bs) == [i \in 1..(n * bs) |->
                        ((seed + ((i - 1) \div bs)) * (((i - 1) % bs) + 3) * 41) % 256]

--------------------------------------------------------------------------
(* Bytes and slices *)

RECURSIVE XorBits(_, _, _)
XorBits(a, b, n) ==
    IF n = 0 THEN 0
    ELSE (((a % 2) + (b % 2)) % 2) + 2 * XorBits(a \div 2, b \div 2, n - 1)

\* The xor of every pair of bytes, computed once.
XorTable == [a \in 0..255 |-> [b \in 0..255 |-> XorBits(a, b, 8)]]

\* u8 ^ u8
Xor8(a, b) == XorTable[a][b]

\* assert_eq!(left, right) with left # right: the call panics.
assert_eq_failed(left, right) ==
    [panic |-> "assertion left == right failed", left |-> left, right |-> right]

\* debug_assert_eq!(buf1.len(), buf2.len()), then buf1[i] ^= buf2[i] over the
\* zip of the two slices.  On slices of different lengths the outcome is
\* that of the build: a panic where debug assertions are compiled in, and
\* where they are not, buf1 with its leading bytes xored as far as the
\* shorter slice goes.
xor(buf1, buf2) ==
    IF Len(buf1) = Len(buf2)
    THEN [i \in 1..Len(buf1) |-> Xor8(buf1[i], buf2[i])]
    ELSE [debug_assertions |-> assert_eq_failed(Len(buf1), Len(buf2)),
          release |-> [i \in 1..Len(buf1) |->
                         IF i <= Len(buf2) THEN Xor8(buf1[i], buf2[i]) ELSE buf1[i]]]

\* s[from..to), 0-based as in the source.
Slice(s, from, to) == [i \in 1..(to - from) |-> s[from + i]]

\* Option<T>
Some(val) == [some |-> TRUE, val |-> val]
None == [some |-> FALSE, val |-> <<>>]

\* iv.chunks_exact(bs): the whole chunks of bs bytes, in order.
chunks_exact(s, bs) == [j \in 1..(Len(s) \div bs) |-> Slice(s, (j - 1) * bs, j * bs)]

--------------------------------------------------------------------------
(* The block cipher C a mode is generic over: a keyed permutation of the   *)
(* blocks, and its inverse.                                                *)

CipherEncrypt(k, b) ==
    LET n == Len(b)
        a == [i \in 1..n |-> (b[i] + k * 17 + i * 29 + 1) % 256]
    IN  [i \in 1..n |-> a[(i % n) + 1]]

CipherDecrypt(k, c) ==
    LET n == Len(c)
        a == [i \in 1..n |-> c[((i + n - 2) % n) + 1]]
    IN  [i \in 1..n |-> (a[i] + 512 * 29 - k * 17 - i * 29 - 1) % 256]

--------------------------------------------------------------------------
(* GOST CBC: gost-modes/src/cbc.rs *)

\* Mutant: every ring slot is loaded with the first block of the IV.
CbcEncrypt_inner_iv_init_first_chunk(cipher, Z, iv) ==
    LET bs     == BlockBytes
        chunks == chunks_exact(iv, bs)
    IN  [cipher |-> cipher,
         Z      |-> Z,
         state  |-> [j \in 1..Z |-> IF 1 <= Len(chunks) THEN chunks[1]
                                    ELSE [i \in 1..bs |-> 0]],
         pos    |-> 0]

CbcEncrypt_inner_iv_init(cipher, Z, iv) ==
    LET bs     == BlockBytes
        chunks == chunks_exact(iv, bs)
    IN  [cipher |-> cipher,
         Z      |-> Z,
         state  |-> [j \in 1..Z |-> IF j <= Len(chunks) THEN chunks[j]
                                    ELSE [i \in 1..bs |-> 0]],
         pos    |-> 0]

\* Mutant: the decryptor starts at the last ring slot.
CbcDecrypt_inner_iv_init_last_slot(cipher, Z, iv) ==
    LET bs     == BlockBytes
        chunks == chunks_exact(iv, bs)
    IN  [cipher |-> cipher,
         Z      |-> Z,
         state  |-> [j \in 1..Z |-> IF j <= Len(chunks) THEN chunks[j]
                                    ELSE [i \in 1..bs |-> 0]],
         pos    |-> Z - 1]

CbcDecrypt_inner_iv_init(cipher, Z, iv) ==
    LET bs     == BlockBytes
        chunks == chunks_exact(iv, bs)
    IN  [cipher |-> cipher,
         Z      |-> Z,
         state  |-> [j \in 1..Z |-> IF j <= Len(chunks) THEN chunks[j]
                                    ELSE [i \in 1..bs |-> 0]],
         pos    |-> 0]

\* Mutant: the ring slot is not overwritten with the new ciphertext block.
CbcEncrypt_encrypt_block_stale_ring(self, blockIn) ==
    LET sb == self.state[self.pos + 1]
        b  == CipherEncrypt(self.cipher, xor(blockIn, sb))
    IN  [out  |-> b,
         self |-> [self EXCEPT !.pos = ((self.pos + 1) % 256) % self.Z]]

\* The value written to the out block and the object after the call.
CbcEncrypt_encrypt_block_inout_mut(self, blockIn) ==
    LET sb == self.state[self.pos + 1]
        b  == CipherEncrypt(self.cipher, xor(blockIn, sb))
    IN  [out  |-> b,
         self |-> [self EXCEPT !.state[self.pos + 1] = b,
                               !.pos = ((self.pos + 1) % 256) % self.Z]]

\* Mutant: the ring slot receives the block after decryption, not the
\* ciphertext block.
CbcDecrypt_decrypt_block_feeds_plain(self, blockIn) ==
    LET pos == self.pos
        b   == self.state[pos + 1]
        b2  == CipherDecrypt(self.cipher, blockIn)
    IN  [out  |-> xor(b2, b),
         self |-> [self EXCEPT !.state[pos + 1] = b2,
                               !.pos = ((self.pos + 1) % 256) % self.Z]]

CbcDecrypt_decrypt_block_inout_mut(self, blockIn) ==
    LET pos == self.pos
        b   == self.state[pos + 1]
        b2  == CipherDecrypt(self.cipher, blockIn)
    IN  [out  |-> xor(b2, b),
         self |-> [self EXCEPT !.state[pos + 1] = blockIn,
                               !.pos = ((self.pos + 1) % 256) % self.Z]]

\* An encryptor and a decryptor made from the same key and IV; pt is what was
\* given to the encryptor, ct what it emitted, out what the decryptor emitted
\* for the first Len(out) blocks of ct.
CbcInit ==
    /\ \E Z \in 1..MaxZ, k \in Keys, s \in IvSeeds :
         LET iv == MkIv(s, Z, BlockBytes)
         IN  cbc = [iv  |-> iv,
                    enc |-> CbcEncrypt_inner_iv_init(k, Z, iv),
                    dec |-> CbcDecrypt_inner_iv_init(k, Z, iv),
                    pt  |-> <<>>, ct |-> <<>>, out |-> <<>>]
    /\ gcfb = Idle /\ cfb = Idle /\ ctr = Idle /\ ofb = Idle
    /\ aes = Idle /\ tdes = Idle

CbcEncryptBlock ==
    /\ Len(cbc.pt) < MaxBlocks
    /\ \E s \in DataSeeds :
         LET p == MkBytes(s, BlockBytes)
             r == CbcEncrypt_encrypt_block_inout_mut(cbc.enc, p)
         IN  cbc' = [cbc EXCEPT !.enc = r.self,
                                !.pt  = Append(@, p),
                                !.ct  = Append(@, r.out)]
    /\ UNCHANGED <<gcfb, cfb, ctr, ofb, aes, tdes>>

CbcDecryptBlock ==
    /\ Len(cbc.out) < Len(cbc.ct)
    /\ LET r == CbcDecrypt_decrypt_block_inout_mut(cbc.dec, cbc.ct[Len(cbc.out) + 1])
       IN  cbc' = [cbc EXCEPT !.dec = r.self,
                              !.out = Append(@, r.out)]
    /\ UNCHANGED <<gcfb, cfb, ctr, ofb, aes, tdes>>

CbcNext == CbcEncryptBlock \/ CbcDecryptBlock

SpecCbc == CbcInit /\ [][CbcNext]_vars

\* The largest ring size the type bounds admit (Z: IsLessOrEqual<U255>).
U255 == 255
\* Calls made on the encryptor, and on the decryptor, of one ring run.
MaxRingCalls == 2
\* Blocks in one slice call: one short of the largest ring.
CbcSliceLen == U255 - 1
\* The data block of the ring runs (the position does not depend on data).
CbcRingBlock == MkBytes(1, BlockBytes)
\* Ring sizes of the ring runs: the small ones and the largest.
CbcRingSizes == (1..MaxZ) \cup {U255}

\* encrypt_block_inout_mut applied to n blocks in a row, as one call over a
\* slice of n equal blocks does; the object after the call.  The slice is
\* processed as its first half and then its second half (the recursion is
\* logarithmic in n); the ring size is a type parameter and never changes,
\* and reading it settles the object of the first half before the second.
RECURSIVE CbcEncrypt_encrypt_blocks(_, _, _)
CbcEncrypt_encrypt_blocks(self, blockIn, n) ==
    IF n = 0 THEN self
    ELSE IF n = 1 THEN CbcEncrypt_encrypt_block_inout_mut(self, blockIn).self
    ELSE LET h   == n \div 2
             mid == CbcEncrypt_encrypt_blocks(self, blockIn, h)
         IN  IF mid.Z = self.Z
             THEN CbcEncrypt_encrypt_blocks(mid, blockIn, n - h)
             ELSE mid

RECURSIVE CbcDecrypt_decrypt_blocks(_, _, _)
CbcDecrypt_decrypt_blocks(self, blockIn, n) ==
    IF n = 0 THEN self
    ELSE IF n = 1 THEN CbcDecrypt_decrypt_block_inout_mut(self, blockIn).self
    ELSE LET h   == n \div 2
             mid == CbcDecrypt_decrypt_blocks(self, blockIn, h)
         IN  IF mid.Z = self.Z
             THEN CbcDecrypt_decrypt_blocks(mid, blockIn, n - h)
             ELSE mid

\* An encryptor and a decryptor of ring size Z with the number of blocks each
\* has processed (nenc, ndec) and the calls made on each.
CbcRingInit ==
    /\ \E Z \in CbcRingSizes, k \in Keys, s \in IvSeeds :
         LET iv == MkIv(s, Z, BlockBytes)
         IN  cbc = [iv   |-> iv,
                    enc  |-> CbcEncrypt_inner_iv_init(k, Z, iv),
                    dec  |-> CbcDecrypt_inner_iv_init(k, Z, iv),
                    nenc |-> 0, ndec |-> 0,
                    encCalls |-> 0, decCalls |-> 0]
    /\ gcfb = Idle /\ cfb = Idle /\ ctr = Idle /\ ofb = Idle
    /\ aes = Idle /\ tdes = Idle

CbcRingEncryptBlock ==
    /\ cbc.encCalls < MaxRingCalls
    /\ LET r == CbcEncrypt_encrypt_block_inout_mut(cbc.enc, CbcRingBlock)
       IN  cbc' = [cbc EXCEPT !.enc = r.self,
                              !.nenc = @ + 1,
                              !.encCalls = @ + 1]
    /\ UNCHANGED <<gcfb, cfb, ctr, ofb, aes, tdes>>

CbcRingEncryptBlocks ==
    /\ cbc.encCalls < MaxRingCalls
    /\ cbc' = [cbc EXCEPT !.enc = CbcEncrypt_encrypt_blocks(
                                     cbc.enc, CbcRingBlock, CbcSliceLen),
                          !.nenc = @ + CbcSliceLen,
                          !.encCalls = @ + 1]
    /\ UNCHANGED <<gcfb, cfb, ctr, ofb, aes, tdes>>

CbcRingDecryptBlock ==
    /\ cbc.decCalls < MaxRingCalls
    /\ LET r == CbcDecrypt_decrypt_block_inout_mut(cbc.dec, CbcRingBlock)
       IN  cbc' = [cbc EXCEPT !.dec = r.self,
                              !.ndec = @ + 1,
                              !.decCalls = @ + 1]
    /\ UNCHANGED <<gcfb, cfb, ctr, ofb, aes, tdes>>

CbcRingDecryptBlocks ==
    /\ cbc.decCalls < MaxRingCalls
    /\ cbc' = [cbc EXCEPT !.dec = CbcDecrypt_decrypt_blocks(
                                     cbc.dec, CbcRingBlock, CbcSliceLen),
                          !.ndec = @ + CbcSliceLen,
                          !.decCalls = @ + 1]
    /\ UNCHANGED <<gcfb, cfb, ctr, ofb, aes, tdes>>

CbcRingNext ==
    \/ CbcRingEncryptBlock
    \/ CbcRingEncryptBlocks
    \/ CbcRingDecryptBlock
    \/ CbcRingDecryptBlocks

SpecCbcRing == CbcRingInit /\ [][CbcRingNext]_vars

--------------------------------------------------------------------------
(* GOST CFB: gost-modes/src/cfb.rs *)

\* InOut::xor: out[i] = in[i] ^ data[i].
inout_xor(blockIn, data) == [i \in 1..Len(blockIn) |-> Xor8(blockIn[i], data[i])]

GostCfb_inner_iv_init(cipher, M, S, iv) ==
    [cipher |-> cipher, M |-> M, S |-> S, iv |-> iv]

\* Mutant: the register is shifted by a whole cipher block, not by S bytes.
GostCfb_encrypt_block_shift_bs(self, blockIn) ==
    LET bs     == BlockBytes
        b      == CipherEncrypt(self.cipher, Slice(self.iv, 0, bs))
        out    == inout_xor(blockIn, Slice(b, 0, self.S))
        n      == self.M - self.S
        new_iv == [i \in 1..self.M |-> IF i <= n
                                        THEN (IF bs + i <= self.M THEN self.iv[bs + i] ELSE 0)
                                        ELSE out[i - n]]
    IN  [out |-> out, self |-> [self EXCEPT !.iv = new_iv]]

GostCfb_encrypt_block_inout_mut(self, blockIn) ==
    LET bs     == BlockBytes
        b      == CipherEncrypt(self.cipher, Slice(self.iv, 0, bs))
        out    == inout_xor(blockIn, Slice(b, 0, self.S))
        n      == self.M - self.S
        new_iv == [i \in 1..self.M |-> IF i <= n THEN self.iv[self.S + i]
                                        ELSE out[i - n]]
    IN  [out |-> out, self |-> [self EXCEPT !.iv = new_iv]]

\* Mutant: the register takes the chunk written to the output.
GostCfb_decrypt_block_feeds_plain(self, blockIn) ==
    LET bs     == BlockBytes
        b      == CipherEncrypt(self.cipher, Slice(self.iv, 0, bs))
        out    == inout_xor(blockIn, Slice(b, 0, self.S))
        n      == self.M - self.S
        new_iv == [i \in 1..self.M |-> IF i <= n THEN self.iv[self.S + i]
                                        ELSE out[i - n]]
    IN  [out |-> out, self |-> [self EXCEPT !.iv = new_iv]]

\* Mutant: the old register bytes are not copied; the leading M - S bytes of
\* the new register stay zero.
GostCfb_decrypt_block_drops_old(self, blockIn) ==
    LET bs     == BlockBytes
        b      == CipherEncrypt(self.cipher, Slice(self.iv, 0, bs))
        n      == self.M - self.S
        new_iv == [i \in 1..self.M |-> IF i <= n THEN 0
                                        ELSE blockIn[i - n]]
    IN  [out  |-> inout_xor(blockIn, Slice(b, 0, self.S)),
         self |-> [self EXCEPT !.iv = new_iv]]

\* Mutant: the first byte of the register is never replaced.
GostCfb_decrypt_block_keeps_head(self, blockIn) ==
    LET bs     == BlockBytes
        b      == CipherEncrypt(self.cipher, Slice(self.iv, 0, bs))
        n      == self.M - self.S
        new_iv == [i \in 1..self.M |-> IF i = 1 THEN self.iv[1]
                                        ELSE IF i <= n THEN self.iv[self.S + i]
                                        ELSE blockIn[i - n]]
    IN  [out  |-> inout_xor(blockIn, Slice(b, 0, self.S)),
         self |-> [self EXCEPT !.iv = new_iv]]

GostCfb_decrypt_block_inout_mut(self, blockIn) ==
    LET bs     == BlockBytes
        b      == CipherEncrypt(self.cipher, Slice(self.iv, 0, bs))
        n      == self.M - self.S
        new_iv == [i \in 1..self.M |-> IF i <= n THEN self.iv[self.S + i]
                                        ELSE blockIn[i - n]]
    IN  [out  |-> inout_xor(blockIn, Slice(b, 0, self.S)),
         self |-> [self EXCEPT !.iv = new_iv]]

\* Mutant: only the leading cipher block of the register is exported; the
\* bytes after it are zero.
GostCfb_iv_state_head_block(self) ==
    [i \in 1..self.M |-> IF i <= BlockBytes THEN self.iv[i] ELSE 0]

GostCfb_iv_state(self) == self.iv

\* Register lengths M explored: the block size, one byte more, two blocks.
GostCfbM == {BlockBytes, BlockBytes + 1, 2 * BlockBytes}

GcfbInit ==
    /\ \E M \in GostCfbM, S \in 1..BlockBytes, k \in Keys, s \in IvSeeds :
         LET iv == MkBytes(s, M)
         IN  gcfb = [iv  |-> iv,
                     enc |-> GostCfb_inner_iv_init(k, M, S, iv),
                     dec |-> GostCfb_inner_iv_init(k, M, S, iv),
                     pt  |-> <<>>, ct |-> <<>>, out |-> <<>>]
    /\ cbc = Idle /\ cfb = Idle /\ ctr = Idle /\ ofb = Idle
    /\ aes = Idle /\ tdes = Idle

GcfbEncryptBlock ==
    /\ Len(gcfb.pt) < MaxBlocks
    /\ \E s \in DataSeeds :
         LET p == MkBytes(s, gcfb.enc.S)
             r == GostCfb_encrypt_block_inout_mut(gcfb.enc, p)
         IN  gcfb' = [gcfb EXCEPT !.enc = r.self,
                                  !.pt  = Append(@, p),
                                  !.ct  = Append(@, r.out)]
    /\ UNCHANGED <<cbc, cfb, ctr, ofb, aes, tdes>>

GcfbDecryptBlock ==
    /\ Len(gcfb.out) < Len(gcfb.ct)
    /\ LET r == GostCfb_decrypt_block_inout_mut(gcfb.dec, gcfb.ct[Len(gcfb.out) + 1])
       IN  gcfb' = [gcfb EXCEPT !.dec = r.self,
                                !.out = Append(@, r.out)]
    /\ UNCHANGED <<cbc, cfb, ctr, ofb, aes, tdes>>

GcfbNext == GcfbEncryptBlock \/ GcfbDecryptBlock

SpecGcfb == GcfbInit /\ [][GcfbNext]_vars

--------------------------------------------------------------------------
(* CFB with full block feedback: cfb-mode/src/lib.rs *)

\* xor of cfb-mode: assert_eq!(out.len(), buf.len()), a panic in every build
\* when the lengths differ, then out[i] ^= buf[i].
cfb_xor(out, buf) ==
    IF Len(out) # Len(buf) THEN assert_eq_failed(Len(out), Len(buf))
    ELSE [i \in 1..Len(out) |-> Xor8(out[i], buf[i])]

Cfb_inner_iv_init(cipher, iv) == [cipher |-> cipher, iv |-> iv]

\* Mutant: the register keeps the encrypted old register, without the xor.
Cfb_encrypt_block_keeps_keystream(self, blockIn) ==
    LET iv1 == CipherEncrypt(self.cipher, self.iv)
        iv2 == cfb_xor(iv1, blockIn)
    IN  [out |-> iv2, self |-> [self EXCEPT !.iv = iv1]]

Cfb_encrypt_block_inout_mut(self, blockIn) ==
    LET iv1 == CipherEncrypt(self.cipher, self.iv)
        iv2 == cfb_xor(iv1, blockIn)
    IN  [out |-> iv2, self |-> [self EXCEPT !.iv = iv2]]

\* Mutant: the register takes the block written to the output.
Cfb_decrypt_block_feeds_plain(self, blockIn) ==
    LET t0 == CipherEncrypt(self.cipher, self.iv)
        t  == cfb_xor(t0, blockIn)
    IN  [out |-> t, self |-> [self EXCEPT !.iv = t]]

Cfb_decrypt_block_inout_mut(self, blockIn) ==
    LET t0 == CipherEncrypt(self.cipher, self.iv)
        t  == cfb_xor(t0, blockIn)
    IN  [out |-> t, self |-> [self EXCEPT !.iv = blockIn]]

Cfb_iv_state(self) == self.iv

CfbInit ==
    /\ \E k \in Keys, s \in IvSeeds :
         LET iv == MkBytes(s, BlockBytes)
         IN  cfb = [iv  |-> iv,
                    enc |-> Cfb_inner_iv_init(k, iv),
                    dec |-> Cfb_inner_iv_init(k, iv),
                    pt  |-> <<>>, ct |-> <<>>, out |-> <<>>]
    /\ cbc = Idle /\ gcfb = Idle /\ ctr = Idle /\ ofb = Idle
    /\ aes = Idle /\ tdes = Idle

CfbEncryptBlock ==
    /\ Len(cfb.pt) < MaxBlocks
    /\ \E s \in DataSeeds :
         LET p == MkBytes(s, BlockBytes)
             r == Cfb_encrypt_block_inout_mut(cfb.enc, p)
         IN  cfb' = [cfb EXCEPT !.enc = r.self,
                                !.pt  = Append(@, p),
                                !.ct  = Append(@, r.out)]
    /\ UNCHANGED <<cbc, gcfb, ctr, ofb, aes, tdes>>

CfbDecryptBlock ==
    /\ Len(cfb.out) < Len(cfb.ct)
    /\ LET r == Cfb_decrypt_block_inout_mut(cfb.dec, cfb.ct[Len(cfb.out) + 1])
       IN  cfb' = [cfb EXCEPT !.dec = r.self,
                              !.out = Append(@, r.out)]
    /\ UNCHANGED <<cbc, gcfb, ctr, ofb, aes, tdes>>

CfbNext == CfbEncryptBlock \/ CfbDecryptBlock

SpecCfb == CfbInit /\ [][CfbNext]_vars

--------------------------------------------------------------------------
(* The batched decryption path of the full-block CFB beside the            *)
(* block-by-block path.                                                    *)

\* Largest number of blocks in one slice given to the batched path.
MaxSlice == 3
\* Calls made on one Cfb object.
MaxCfbCalls == 2
\* Seed of the IV of the batched runs; it is none of the slice seeds.
CfbBatchIvSeed == 5
\* Seeds of the blocks of a slice.
CfbSliceSeeds == {1, 2}

\* The ways the cipher hands a slice of n blocks to the hooks, as the lengths
\* of the chunks in order.  The blocks are cut into consecutive non-empty
\* chunks; what is left after the last of them holds no block, and the
\* contract of the batched hooks does not say whether the cipher skips it or
\* hands it to the hooks as one more chunk, so both are the cipher's choice.
\* A slice of no blocks is handed as no chunk or as one chunk of no blocks.
RECURSIVE Splits(_)
Splits(n) ==
    IF n = 0 THEN {<<>>, <<0>>}
    ELSE UNION {{<<k>> \o s : s \in Splits(n - k)} : k \in 1..n}

\* The loop of the post hook over a chunk: for i in 0..len, enc_iv ^= in_buf[i]
\* and swap(tmp_buf[i], enc_iv).  Gives enc_iv and tmp_buf after the loop.
RECURSIVE Cfb_post_loop(_, _, _, _)
Cfb_post_loop(enc_iv, in_buf, tmp_buf, i) ==
    IF i > Len(in_buf) THEN [enc_iv |-> enc_iv, tmp_buf |-> tmp_buf]
    ELSE LET x == cfb_xor(enc_iv, in_buf[i])
         IN  Cfb_post_loop(tmp_buf[i], in_buf,
                           [j \in 1..Len(tmp_buf) |-> IF j = i THEN x ELSE tmp_buf[j]],
                           i + 1)

\* The closure given to the cipher as post hook.  st holds what the closure
\* captures (enc_iv, the register iv) with the blocks the caller's post_fn
\* has taken (out) and whether the closure panicked (fault): in_buf[len - 1]
\* on a chunk of no blocks is out of bounds.
\* Mutant: the register takes the first block of the chunk.
Cfb_post_hook_first_block(st, in_buf, tmp_buf) ==
    LET len == Len(in_buf)
        r   == Cfb_post_loop(st.enc_iv, in_buf, tmp_buf, 1)
    IN  IF len = 0 THEN [st EXCEPT !.fault = TRUE]
        ELSE [enc_iv |-> r.enc_iv,
              iv     |-> in_buf[1],
              out    |-> st.out \o r.tmp_buf,
              fault  |-> FALSE]

Cfb_post_hook(st, in_buf, tmp_buf) ==
    LET len == Len(in_buf)
        r   == Cfb_post_loop(st.enc_iv, in_buf, tmp_buf, 1)
    IN  IF len = 0 THEN [st EXCEPT !.fault = TRUE]
        ELSE [enc_iv |-> r.enc_iv,
              iv     |-> in_buf[len],
              out    |-> st.out \o r.tmp_buf,
              fault  |-> FALSE]

\* The cipher's encrypt_blocks_with_pre_mut with a pre hook that selects the
\* input buffer: chunk by chunk, the blocks of the chunk are encrypted into
\* the parallel tmp buffer and the post hook is invoked on the chunk.  split
\* is the cipher's choice of chunks; a chunk of no blocks is handed to the
\* hook like any other, and a panic of the hook ends the call.
RECURSIVE Cipher_encrypt_blocks_with_pre_mut(_, _, _, _)
Cipher_encrypt_blocks_with_pre_mut(cipher, blocks, split, st) ==
    IF split = <<>> \/ st.fault THEN st
    ELSE LET n     == Head(split)
             chunk == SubSeq(blocks, 1, n)
             tmp   == [i \in 1..n |-> CipherEncrypt(cipher, chunk[i])]
         IN  Cipher_encrypt_blocks_with_pre_mut(
                 cipher, SubSeq(blocks, n + 1, Len(blocks)), Tail(split),
                 Cfb_post_hook(st, chunk, tmp))

\* The blocks handed to post_fn, whether the call panicked, and the object
\* after the call.
Cfb_decrypt_blocks_with_pre_mut(self, blocks, split) ==
    LET enc_iv == CipherEncrypt(self.cipher, self.iv)
        r      == Cipher_encrypt_blocks_with_pre_mut(
                      self.cipher, blocks, split,
                      [enc_iv |-> enc_iv, iv |-> self.iv, out |-> <<>>, fault |-> FALSE])
    IN  [out |-> r.out, fault |-> r.fault, self |-> [self EXCEPT !.iv = r.iv]]

\* decrypt_block_inout_mut on each block of a slice in order: the blocks
\* written and the object after the last call.
RECURSIVE Cfb_decrypt_each(_, _, _)
Cfb_decrypt_each(self, blocks, out) ==
    IF blocks = <<>> THEN [out |-> out, self |-> self]
    ELSE LET r == Cfb_decrypt_block_inout_mut(self, Head(blocks))
         IN  Cfb_decrypt_each(r.self, Tail(blocks), Append(out, r.out))

\* The slices given to the batched path.
CfbSlices ==
    UNION {{[i \in 1..n |-> MkBytes(f[i], BlockBytes)] : f \in [1..n -> CfbSliceSeeds]}
           : n \in 0..MaxSlice}

\* One Cfb object (obj) driven through every path, and a twin (seq) given the
\* same blocks one at a time.  last is the most recent ciphertext block, call
\* describes the last call: the register before it, the blocks given, how
\* the cipher cut them into chunks, what obj and the twin wrote, whether obj
\* panicked, and what iv_state returns after the call.  A panic ends the
\* run: no further call is made on the object.
\* Key of the cipher of the batched runs.
CfbBatchKeys == {200}

CfbBatchInit ==
    /\ \E k \in CfbBatchKeys :
         LET iv == MkBytes(CfbBatchIvSeed, BlockBytes)
         IN  cfb = [iv    |-> iv,
                    obj   |-> Cfb_inner_iv_init(k, iv),
                    seq   |-> Cfb_inner_iv_init(k, iv),
                    last  |-> None,
                    calls |-> 0,
                    call  |-> [op |-> "new", before |-> iv, blocks |-> <<>>,
                               split |-> <<>>,
                               out |-> <<>>, seqOut |-> <<>>, fault |-> FALSE,
                               iv_state |-> iv]]
    /\ cbc = Idle /\ gcfb = Idle /\ ctr = Idle /\ ofb = Idle
    /\ aes = Idle /\ tdes = Idle

CfbBatchEncryptBlock ==
    /\ cfb.calls < MaxCfbCalls
    /\ ~cfb.call.fault
    /\ \E s \in CfbSliceSeeds :
         LET p == MkBytes(s, BlockBytes)
             r == Cfb_encrypt_block_inout_mut(cfb.obj, p)
             q == Cfb_encrypt_block_inout_mut(cfb.seq, p)
         IN  cfb' = [cfb EXCEPT !.obj = r.self, !.seq = q.self,
                                !.last = Some(r.out),
                                !.calls = @ + 1,
                                !.call = [op |-> "encrypt", before |-> cfb.obj.iv,
                                          blocks |-> <<p>>, split |-> <<1>>,
                                          out |-> <<r.out>>,
                                          seqOut |-> <<q.out>>, fault |-> FALSE,
                                          iv_state |-> Cfb_iv_state(r.self)]]
    /\ UNCHANGED <<cbc, gcfb, ctr, ofb, aes, tdes>>

CfbBatchDecryptBlock ==
    /\ cfb.calls < MaxCfbCalls
    /\ ~cfb.call.fault
    /\ \E s \in CfbSliceSeeds :
         LET c == MkBytes(s, BlockBytes)
             r == Cfb_decrypt_block_inout_mut(cfb.obj, c)
             q == Cfb_decrypt_block_inout_mut(cfb.seq, c)
         IN  cfb' = [cfb EXCEPT !.obj = r.self, !.seq = q.self,
                                !.last = Some(c),
                                !.calls = @ + 1,
                                !.call = [op |-> "decrypt", before |-> cfb.obj.iv,
                                          blocks |-> <<c>>, split |-> <<1>>,
                                          out |-> <<r.out>>,
                                          seqOut |-> <<q.out>>, fault |-> FALSE,
                                          iv_state |-> Cfb_iv_state(r.self)]]
    /\ UNCHANGED <<cbc, gcfb, ctr, ofb, aes, tdes>>

CfbBatchDecryptBlocks ==
    /\ cfb.calls < MaxCfbCalls
    /\ ~cfb.call.fault
    /\ \E blocks \in CfbSlices :
         LET q == Cfb_decrypt_each(cfb.seq, blocks, <<>>)
         IN  \E split \in Splits(Len(blocks)) :
           LET r == Cfb_decrypt_blocks_with_pre_mut(cfb.obj, blocks, split)
           IN  cfb' = [cfb EXCEPT !.obj = r.self, !.seq = q.self,
                                  !.last = IF blocks = <<>> THEN @
                                           ELSE Some(blocks[Len(blocks)]),
                                  !.calls = @ + 1,
                                  !.call = [op |-> "decrypt_blocks", before |-> cfb.obj.iv,
                                            blocks |-> blocks, split |-> split,
                                            out |-> r.out,
                                            seqOut |-> q.out, fault |-> r.fault,
                                            iv_state |-> Cfb_iv_state(r.self)]]
    /\ UNCHANGED <<cbc, gcfb, ctr, ofb, aes, tdes>>

CfbBatchNext ==
    \/ CfbBatchEncryptBlock
    \/ CfbBatchDecryptBlock
    \/ CfbBatchDecryptBlocks

SpecCfbBatch == CfbBatchInit /\ [][CfbBatchNext]_vars

--------------------------------------------------------------------------
(* GOST CFB with its default parameters (M = S = block size) beside the    *)
(* full-block CFB: the two encryptors are given the same plaintext blocks, *)
(* the two decryptors the same ciphertext blocks.                          *)

CfbEquivInit ==
    /\ \E k \in Keys, s \in IvSeeds :
         LET iv == MkBytes(s, BlockBytes)
         IN  /\ gcfb = [iv  |-> iv,
                        enc |-> GostCfb_inner_iv_init(k, BlockBytes, BlockBytes, iv),
                        dec |-> GostCfb_inner_iv_init(k, BlockBytes, BlockBytes, iv),
                        pt  |-> <<>>, ct |-> <<>>, din |-> <<>>, out |-> <<>>]
             /\ cfb = [iv  |-> iv,
                       enc |-> Cfb_inner_iv_init(k, iv),
                       dec |-> Cfb_inner_iv_init(k, iv),
                       pt  |-> <<>>, ct |-> <<>>, din |-> <<>>, out |-> <<>>]
    /\ cbc = Idle /\ ctr = Idle /\ ofb = Idle /\ aes = Idle /\ tdes = Idle

CfbEquivEncryptBlock ==
    /\ Len(gcfb.pt) + Len(gcfb.din) < MaxBlocks
    /\ \E s \in DataSeeds :
         LET p  == MkBytes(s, BlockBytes)
             rg == GostCfb_encrypt_block_inout_mut(gcfb.enc, p)
             rc == Cfb_encrypt_block_inout_mut(cfb.enc, p)
         IN  /\ gcfb' = [gcfb EXCEPT !.enc = rg.self,
                                     !.pt  = Append(@, p),
                                     !.ct  = Append(@, rg.out)]
             /\ cfb'  = [cfb EXCEPT !.enc = rc.self,
                                    !.pt  = Append(@, p),
                                    !.ct  = Append(@, rc.out)]
    /\ UNCHANGED <<cbc, ctr, ofb, aes, tdes>>

CfbEquivDecryptBlock ==
    /\ Len(gcfb.pt) + Len(gcfb.din) < MaxBlocks
    /\ \E s \in DataSeeds :
         LET c  == MkBytes(s, BlockBytes)
             rg == GostCfb_decrypt_block_inout_mut(gcfb.dec, c)
             rc == Cfb_decrypt_block_inout_mut(cfb.dec, c)
         IN  /\ gcfb' = [gcfb EXCEPT !.dec = rg.self,
                                     !.din = Append(@, c),
                                     !.out = Append(@, rg.out)]
             /\ cfb'  = [cfb EXCEPT !.dec = rc.self,
                                    !.din = Append(@, c),
                                    !.out = Append(@, rc.out)]
    /\ UNCHANGED <<cbc, ctr, ofb, aes, tdes>>

CfbEquivNext == CfbEquivEncryptBlock \/ CfbEquivDecryptBlock

SpecCfbEquiv == CfbEquivInit /\ [][CfbEquivNext]_vars

--------------------------------------------------------------------------
(* Unsigned integers wider than a byte.  A u64 is held as four 16-bit      *)
(* limbs and a u32 as two, most significant limb first.                    *)

\* u64::from_be_bytes / u32::from_be_bytes
from_be_bytes(bytes) == [j \in 1..(Len(bytes) \div 2) |-> bytes[2 * j - 1] * 256 + bytes[2 * j]]

\* u64::to_be_bytes / u32::to_be_bytes
to_be_bytes(x) == [i \in 1..(2 * Len(x)) |->
                     IF i % 2 = 1 THEN x[(i + 1) \div 2] \div 256 ELSE x[i \div 2] % 256]

\* x.wrapping_add(1): a limb is incremented when every limb below it is full.
wrapping_add_one(x) ==
    [j \in 1..Len(x) |-> IF \A m \in (j + 1)..Len(x) : x[m] = 65535
                         THEN (x[j] + 1) % 65536 ELSE x[j]]

\* The small number n as an unsigned integer of w limbs.
UInt(n, w) == [j \in 1..w |-> IF j = w THEN n ELSE 0]

\* u64::MAX - n, u32::MAX - n for a small n.
UMaxMinus(n, w) == [j \in 1..w |-> IF j = w THEN 65535 - n ELSE 65535]

\* u64::MAX - x, u32::MAX - x: no limb borrows from the next.
max_sub(x) == [j \in 1..Len(x) |-> 65535 - x[j]]

\* Limbs of usize on the targets explored: 32-bit and 64-bit.
UsizeLimbs == {2, 4}

\* x.try_into().ok() for a usize of u limbs: the value when it fits, widened
\* with zero limbs when usize is the wider type.
try_into_usize(x, u) ==
    LET w == Len(x)
    IN  IF w <= u THEN Some([j \in 1..u |-> IF j <= u - w THEN 0 ELSE x[j - (u - w)]])
        ELSE IF \A j \in 1..(w - u) : x[j] = 0
             THEN Some([j \in 1..u |-> x[j + (w - u)]])
             ELSE None

--------------------------------------------------------------------------
(* GOST CTR for 128-bit block ciphers: gost-modes/src/ctr128.rs *)

Ctr128Core_inner_iv_init(cipher, S, iv) ==
    [cipher |-> cipher, S |-> S, nonce |-> from_be_bytes(iv), ctr |-> UInt(0, 4)]

\* Mutant: the counter block is one 128-bit counter, so a wrap of the low
\* half carries into the nonce.
Ctr128Core_xor_block_carries(self, blockIn) ==
    LET nb == to_be_bytes(self.nonce)
        cb == to_be_bytes(self.ctr)
        b0 == [i \in 1..16 |-> IF i <= 8 THEN nb[i] ELSE cb[i - 8]]
        b  == CipherEncrypt(self.cipher, b0)
    IN  [out  |-> inout_xor(blockIn, Slice(b, 0, self.S)),
         self |-> [self EXCEPT !.ctr = wrapping_add_one(self.ctr),
                               !.nonce = IF \A j \in 1..4 : self.ctr[j] = 65535
                                         THEN wrapping_add_one(@) ELSE @]]

\* Mutant: the counter is stepped before the counter block is built.
Ctr128Core_xor_block_steps_first(self, blockIn) ==
    LET nb == to_be_bytes(self.nonce)
        cb == to_be_bytes(wrapping_add_one(self.ctr))
        b0 == [i \in 1..16 |-> IF i <= 8 THEN nb[i] ELSE cb[i - 8]]
        b  == CipherEncrypt(self.cipher, b0)
    IN  [out  |-> inout_xor(blockIn, Slice(b, 0, self.S)),
         self |-> [self EXCEPT !.ctr = wrapping_add_one(self.ctr)]]

Ctr128Core_xor_block(self, blockIn) ==
    LET nb == to_be_bytes(self.nonce)
        cb == to_be_bytes(self.ctr)
        b0 == [i \in 1..16 |-> IF i <= 8 THEN nb[i] ELSE cb[i - 8]]
        b  == CipherEncrypt(self.cipher, b0)
    IN  [out  |-> inout_xor(blockIn, Slice(b, 0, self.S)),
         self |-> [self EXCEPT !.ctr = wrapping_add_one(self.ctr)]]

RECURSIVE Ctr128Core_apply_keystream_blocks(_, _)
Ctr128Core_apply_keystream_blocks(self, blocks) ==
    IF blocks = <<>> THEN [out |-> <<>>, self |-> self]
    ELSE LET r    == Ctr128Core_xor_block(self, blocks[1])
             rest == Ctr128Core_apply_keystream_blocks(r.self, Tail(blocks))
         IN  [out |-> <<r.out>> \o rest.out, self |-> rest.self]

\* Mutant: the counter itself is reported.
Ctr128Core_remaining_blocks_is_ctr(self, usize) == try_into_usize(self.ctr, usize)

\* usize: the limbs of usize on the target.
Ctr128Core_remaining_blocks(self, usize) == try_into_usize(max_sub(self.ctr), usize)

Ctr128Core_encrypt_block_inout_mut(self, blockIn) == Ctr128Core_xor_block(self, blockIn)

\* Mutant: decryption leaves the counter where it was.
Ctr128Core_decrypt_block_keeps_ctr(self, blockIn) ==
    [out |-> Ctr128Core_xor_block(self, blockIn).out, self |-> self]

Ctr128Core_decrypt_block_inout_mut(self, blockIn) == Ctr128Core_xor_block(self, blockIn)

Ctr128Core_get_block_pos(self) == self.ctr

\* Mutant: the counter is set one past the position asked for.
Ctr128Core_set_block_pos_next(self, pos) == [self EXCEPT !.ctr = wrapping_add_one(pos)]

Ctr128Core_set_block_pos(self, pos) == [self EXCEPT !.ctr = pos]

--------------------------------------------------------------------------
(* GOST CTR for 64-bit block ciphers: gost-modes/src/ctr64.rs *)

Ctr64Core_inner_iv_init(cipher, S, iv) ==
    [cipher |-> cipher, S |-> S, nonce |-> from_be_bytes(iv), ctr |-> UInt(0, 2)]

\* Mutant: the counter stops at its largest value.
Ctr64Core_xor_block_saturates(self, blockIn) ==
    LET nb == to_be_bytes(self.nonce)
        cb == to_be_bytes(self.ctr)
        b0 == [i \in 1..8 |-> IF i <= 4 THEN nb[i] ELSE cb[i - 4]]
        b  == CipherEncrypt(self.cipher, b0)
    IN  [out  |-> inout_xor(blockIn, Slice(b, 0, self.S)),
         self |-> [self EXCEPT !.ctr = IF \A j \in 1..2 : @[j] = 65535
                                       THEN @ ELSE wrapping_add_one(@)]]

Ctr64Core_xor_block(self, blockIn) ==
    LET nb == to_be_bytes(self.nonce)
        cb == to_be_bytes(self.ctr)
        b0 == [i \in 1..8 |-> IF i <= 4 THEN nb[i] ELSE cb[i - 4]]
        b  == CipherEncrypt(self.cipher, b0)
    IN  [out  |-> inout_xor(blockIn, Slice(b, 0, self.S)),
         self |-> [self EXCEPT !.ctr = wrapping_add_one(self.ctr)]]

RECURSIVE Ctr64Core_apply_keystream_blocks(_, _)
Ctr64Core_apply_keystream_blocks(self, blocks) ==
    IF blocks = <<>> THEN [out |-> <<>>, self |-> self]
    ELSE LET r    == Ctr64Core_xor_block(self, blocks[1])
             rest == Ctr64Core_apply_keystream_blocks(r.self, Tail(blocks))
         IN  [out |-> <<r.out>> \o rest.out, self |-> rest.self]

Ctr64Core_remaining_blocks(self, usize) == try_into_usize(max_sub(self.ctr), usize)

Ctr64Core_encrypt_block_inout_mut(self, blockIn) == Ctr64Core_xor_block(self, blockIn)

Ctr64Core_decrypt_block_inout_mut(self, blockIn) == Ctr64Core_xor_block(self, blockIn)

\* Mutant: the position reported is the counter cut to its low 16 bits.
Ctr64Core_get_block_pos_low(self) == [j \in 1..2 |-> IF j = 2 THEN self.ctr[2] ELSE 0]

Ctr64Core_get_block_pos(self) == self.ctr

Ctr64Core_set_block_pos(self, pos) == [self EXCEPT !.ctr = pos]

--------------------------------------------------------------------------
(* The two CTR cores behind one interface; v names the core type. *)

CtrVariants == {"Ctr128Core", "Ctr64Core"}

\* Limbs of the counter, bytes of the IV, bytes of the cipher block.
CtrLimbs(v) == IF v = "Ctr128Core" THEN 4 ELSE 2
CtrIvBytes(v) == IF v = "Ctr128Core" THEN 8 ELSE 4
CtrBlockBytes(v) == IF v = "Ctr128Core" THEN 16 ELSE 8

\* Output widths S explored: part of the block, the whole block.
CtrWidths(v) == {3, CtrBlockBytes(v)}

\* Pairs of a cipher key and an IV seed the CTR cores are made from.
CtrSetups == {<<3, 1>>, <<200, 5>>}

\* Seeds of the data blocks given to the CTR cores.
CtrSeeds == {0, 2}

Ctr_inner_iv_init(v, cipher, S, iv) ==
    IF v = "Ctr128Core" THEN Ctr128Core_inner_iv_init(cipher, S, iv)
    ELSE Ctr64Core_inner_iv_init(cipher, S, iv)

Ctr_encrypt_block_inout_mut(v, self, blockIn) ==
    IF v = "Ctr128Core" THEN Ctr128Core_encrypt_block_inout_mut(self, blockIn)
    ELSE Ctr64Core_encrypt_block_inout_mut(self, blockIn)

Ctr_decrypt_block_inout_mut(v, self, blockIn) ==
    IF v = "Ctr128Core" THEN Ctr128Core_decrypt_block_inout_mut(self, blockIn)
    ELSE Ctr64Core_decrypt_block_inout_mut(self, blockIn)

Ctr_apply_keystream_blocks(v, self, blocks) ==
    IF v = "Ctr128Core" THEN Ctr128Core_apply_keystream_blocks(self, blocks)
    ELSE Ctr64Core_apply_keystream_blocks(self, blocks)

Ctr_get_block_pos(v, self) ==
    IF v = "Ctr128Core" THEN Ctr128Core_get_block_pos(self)
    ELSE Ctr64Core_get_block_pos(self)

Ctr_set_block_pos(v, self, pos) ==
    IF v = "Ctr128Core" THEN Ctr128Core_set_block_pos(self, pos)
    ELSE Ctr64Core_set_block_pos(self, pos)

Ctr_remaining_blocks(v, self, usize) ==
    IF v = "Ctr128Core" THEN Ctr128Core_remaining_blocks(self, usize)
    ELSE Ctr64Core_remaining_blocks(self, usize)

\* Positions given to set_block_pos: near zero and near the largest counter.
SeekPositions(v) ==
    {UInt(0, CtrLimbs(v)), UInt(2, CtrLimbs(v)),
     UMaxMinus(1, CtrLimbs(v)), UMaxMinus(0, CtrLimbs(v))}

\* Two cores made from the same key and nonce.  The first is given data
\* blocks (pt) and emits ct; the second is given ct, block by block, and
\* emits out.  set_block_pos moves both to the same position, once in a run,
\* when the second core has caught up with the first.
CtrInit ==
    /\ \E v \in CtrVariants, ks \in CtrSetups :
         \E S \in CtrWidths(v) :
           LET k  == ks[1]
               iv == MkBytes(ks[2], CtrIvBytes(v))
           IN  ctr = [variant |-> v,
                      iv  |-> iv,
                      enc |-> Ctr_inner_iv_init(v, k, S, iv),
                      dec |-> Ctr_inner_iv_init(v, k, S, iv),
                      pt  |-> <<>>, ct |-> <<>>, out |-> <<>>,
                      seeked |-> FALSE]
    /\ cbc = Idle /\ gcfb = Idle /\ cfb = Idle /\ ofb = Idle
    /\ aes = Idle /\ tdes = Idle

CtrEncryptBlock ==
    /\ Len(ctr.pt) < MaxBlocks
    /\ \E s \in CtrSeeds :
         LET p == MkBytes(s, ctr.enc.S)
             r == Ctr_encrypt_block_inout_mut(ctr.variant, ctr.enc, p)
         IN  ctr' = [ctr EXCEPT !.enc = r.self,
                                !.pt  = Append(@, p),
                                !.ct  = Append(@, r.out)]
    /\ UNCHANGED <<cbc, gcfb, cfb, ofb, aes, tdes>>

CtrApplyKeystreamBlocks ==
    /\ Len(ctr.pt) + 2 <= MaxBlocks
    /\ \E s \in CtrSeeds :
         LET ps == <<MkBytes(s, ctr.enc.S), MkBytes(s + 1, ctr.enc.S)>>
             r  == Ctr_apply_keystream_blocks(ctr.variant, ctr.enc, ps)
         IN  ctr' = [ctr EXCEPT !.enc = r.self,
                                !.pt  = @ \o ps,
                                !.ct  = @ \o r.out]
    /\ UNCHANGED <<cbc, gcfb, cfb, ofb, aes, tdes>>

CtrDecryptBlock ==
    /\ Len(ctr.out) < Len(ctr.ct)
    /\ LET r == Ctr_decrypt_block_inout_mut(ctr.variant, ctr.dec, ctr.ct[Len(ctr.out) + 1])
       IN  ctr' = [ctr EXCEPT !.dec = r.self,
                              !.out = Append(@, r.out)]
    /\ UNCHANGED <<cbc, gcfb, cfb, ofb, aes, tdes>>

\* The second core applies the keystream to every block it has not seen yet.
CtrReapplyKeystream ==
    /\ Len(ctr.out) + 2 <= Len(ctr.ct)
    /\ LET r == Ctr_apply_keystream_blocks(ctr.variant, ctr.dec,
                                           SubSeq(ctr.ct, Len(ctr.out) + 1, Len(ctr.ct)))
       IN  ctr' = [ctr EXCEPT !.dec = r.self,
                              !.out = @ \o r.out]
    /\ UNCHANGED <<cbc, gcfb, cfb, ofb, aes, tdes>>

CtrSetBlockPos ==
    /\ ~ctr.seeked
    /\ Len(ctr.out) = Len(ctr.ct)
    /\ \E pos \in SeekPositions(ctr.variant) :
         ctr' = [ctr EXCEPT !.enc = Ctr_set_block_pos(ctr.variant, ctr.enc, pos),
                            !.dec = Ctr_set_block_pos(ctr.variant, ctr.dec, pos),
                            !.seeked = TRUE]
    /\ UNCHANGED <<cbc, gcfb, cfb, ofb, aes, tdes>>

CtrNext ==
    \/ CtrEncryptBlock
    \/ CtrApplyKeystreamBlocks
    \/ CtrDecryptBlock
    \/ CtrReapplyKeystream
    \/ CtrSetBlockPos

SpecCtr == CtrInit /\ [][CtrNext]_vars

--------------------------------------------------------------------------
(* CTR seek beside a run from position 0.  The core lin starts at 0 and    *)
(* processes the blocks of data in order; the core sk, made from the same  *)
(* key and nonce, is moved to block n by set_block_pos and processes the   *)
(* blocks of data after the first n.                                       *)

CtrSeekInit ==
    /\ \E v \in CtrVariants, ks \in CtrSetups :
         \E S \in CtrWidths(v) :
           LET k  == ks[1]
               iv == MkBytes(ks[2], CtrIvBytes(v))
           IN  ctr = [variant |-> v,
                      iv  |-> iv,
                      lin |-> Ctr_inner_iv_init(v, k, S, iv),
                      sk  |-> Ctr_inner_iv_init(v, k, S, iv),
                      seeked |-> FALSE, n |-> 0,
                      data |-> <<>>, linOut |-> <<>>, skOut |-> <<>>]
    /\ cbc = Idle /\ gcfb = Idle /\ cfb = Idle /\ ofb = Idle
    /\ aes = Idle /\ tdes = Idle

CtrSeekLinear ==
    /\ Len(ctr.data) < MaxBlocks
    /\ \E s \in CtrSeeds :
         LET p == MkBytes(s, ctr.lin.S)
             r == Ctr_apply_keystream_blocks(ctr.variant, ctr.lin, <<p>>)
         IN  ctr' = [ctr EXCEPT !.lin    = r.self,
                                !.data   = Append(@, p),
                                !.linOut = @ \o r.out]
    /\ UNCHANGED <<cbc, gcfb, cfb, ofb, aes, tdes>>

CtrSeekSetBlockPos ==
    /\ ~ctr.seeked
    /\ \E n \in 0..(MaxBlocks - 1) :
         ctr' = [ctr EXCEPT !.sk = Ctr_set_block_pos(ctr.variant, ctr.sk,
                                                     UInt(n, CtrLimbs(ctr.variant))),
                            !.seeked = TRUE,
                            !.n = n]
    /\ UNCHANGED <<cbc, gcfb, cfb, ofb, aes, tdes>>

\* sk applies the keystream to every block of data after the first n that it
\* has not processed yet.
CtrSeekApply ==
    /\ ctr.seeked
    /\ ctr.n + Len(ctr.skOut) < Len(ctr.data)
    /\ LET r == Ctr_apply_keystream_blocks(ctr.variant, ctr.sk,
                    SubSeq(ctr.data, ctr.n + Len(ctr.skOut) + 1, Len(ctr.data)))
       IN  ctr' = [ctr EXCEPT !.sk    = r.self,
                              !.skOut = @ \o r.out]
    /\ UNCHANGED <<cbc, gcfb, cfb, ofb, aes, tdes>>

CtrSeekNext == CtrSeekLinear \/ CtrSeekSetBlockPos \/ CtrSeekApply

SpecCtrSeek == CtrSeekInit /\ [][CtrSeekNext]_vars

\* Largest number of calls that move the counter of one core.
MaxCtrOps == 3

\* Numbers of blocks given to apply_keystream_blocks in one call.
CtrBatchSizes == {2, 3}

\* One core on a target whose usize has the given number of limbs.  steps
\* counts the calls that moved the counter; last is the last call: the core
\* before it, the number of blocks it was given, the blocks themselves
\* (data), what was written for them (out) and what the call returned, "()"
\* for a call that returns nothing.
\* setPos is the position given to the last set_block_pos, if any, and
\* since the number of blocks processed after it (after construction when
\* there was none).
CtrCoreInit ==
    /\ \E v \in CtrVariants, ks \in CtrSetups, u \in UsizeLimbs :
        \E S \in CtrWidths(v) :
         LET iv == MkBytes(ks[2], CtrIvBytes(v))
             c  == Ctr_inner_iv_init(v, ks[1], S, iv)
         IN  ctr = [variant |-> v, usize |-> u, iv |-> iv, core |-> c, steps |-> 0,
                    setPos |-> None, since |-> 0,
                    last |-> [op |-> "inner_iv_init", before |-> c, blocks |-> 0,
                              data |-> <<>>, out |-> <<>>, ret |-> "()"]]
    /\ cbc = Idle /\ gcfb = Idle /\ cfb = Idle /\ ofb = Idle
    /\ aes = Idle /\ tdes = Idle

CtrCoreEncryptBlock ==
    /\ ctr.steps < MaxCtrOps
    /\ LET d == MkBytes(1, ctr.core.S)
           r == Ctr_encrypt_block_inout_mut(ctr.variant, ctr.core, d)
       IN  ctr' = [ctr EXCEPT !.core = r.self, !.steps = @ + 1,
                              !.since = @ + 1,
                              !.last = [op |-> "encrypt_block_inout_mut",
                                        before |-> ctr.core, blocks |-> 1,
                                        data |-> <<d>>, out |-> <<r.out>>,
                                        ret |-> "()"]]
    /\ UNCHANGED <<cbc, gcfb, cfb, ofb, aes, tdes>>

CtrCoreDecryptBlock ==
    /\ ctr.steps < MaxCtrOps
    /\ LET d == MkBytes(1, ctr.core.S)
           r == Ctr_decrypt_block_inout_mut(ctr.variant, ctr.core, d)
       IN  ctr' = [ctr EXCEPT !.core = r.self, !.steps = @ + 1,
                              !.since = @ + 1,
                              !.last = [op |-> "decrypt_block_inout_mut",
                                        before |-> ctr.core, blocks |-> 1,
                                        data |-> <<d>>, out |-> <<r.out>>,
                                        ret |-> "()"]]
    /\ UNCHANGED <<cbc, gcfb, cfb, ofb, aes, tdes>>

\* apply_keystream_blocks returns nothing: there is no error to report.
CtrCoreApplyKeystreamBlocks ==
    /\ ctr.steps < MaxCtrOps
    /\ \E n \in CtrBatchSizes :
         LET bs == [i \in 1..n |-> MkBytes(i, ctr.core.S)]
             r  == Ctr_apply_keystream_blocks(ctr.variant, ctr.core, bs)
         IN  ctr' = [ctr EXCEPT !.core = r.self, !.steps = @ + 1,
                                !.since = @ + n,
                                !.last = [op |-> "apply_keystream_blocks",
                                          before |-> ctr.core, blocks |-> n,
                                          data |-> bs, out |-> r.out, ret |-> "()"]]
    /\ UNCHANGED <<cbc, gcfb, cfb, ofb, aes, tdes>>

CtrCoreSetBlockPos ==
    /\ ctr.steps < MaxCtrOps
    /\ \E p \in SeekPositions(ctr.variant) :
         ctr' = [ctr EXCEPT !.core = Ctr_set_block_pos(ctr.variant, ctr.core, p),
                            !.steps = @ + 1,
                            !.setPos = Some(p), !.since = 0,
                            !.last = [op |-> "set_block_pos", before |-> ctr.core,
                                      blocks |-> 0, data |-> <<>>, out |-> <<>>,
                                      ret |-> p]]
    /\ UNCHANGED <<cbc, gcfb, cfb, ofb, aes, tdes>>

CtrCoreGetBlockPos ==
    /\ ctr' = [ctr EXCEPT !.last = [op |-> "get_block_pos", before |-> ctr.core,
                                    blocks |-> 0, data |-> <<>>, out |-> <<>>,
                                    ret |-> Ctr_get_block_pos(ctr.variant, ctr.core)]]
    /\ UNCHANGED <<cbc, gcfb, cfb, ofb, aes, tdes>>

CtrCoreRemainingBlocks ==
    /\ ctr' = [ctr EXCEPT !.last = [op |-> "remaining_blocks", before |-> ctr.core,
                                    blocks |-> 0, data |-> <<>>, out |-> <<>>,
                                    ret |-> Ctr_remaining_blocks(ctr.variant, ctr.core,
                                                                 ctr.usize)]]
    /\ UNCHANGED <<cbc, gcfb, cfb, ofb, aes, tdes>>

CtrCoreNext ==
    \/ CtrCoreEncryptBlock
    \/ CtrCoreDecryptBlock
    \/ CtrCoreApplyKeystreamBlocks
    \/ CtrCoreSetBlockPos
    \/ CtrCoreGetBlockPos
    \/ CtrCoreRemainingBlocks

SpecCtrCore == CtrCoreInit /\ [][CtrCoreNext]_vars

--------------------------------------------------------------------------
(* GOST OFB: gost-modes/src/ofb.rs *)

\* Mutant: the ring is loaded with the blocks of the IV in reverse order.
OfbCore_inner_iv_init_reversed(cipher, Z, S, iv) ==
    LET bs     == BlockBytes
        chunks == chunks_exact(iv, bs)
    IN  [cipher |-> cipher,
         Z      |-> Z,
         S      |-> S,
         state  |-> [j \in 1..Z |-> IF j <= Len(chunks) THEN chunks[Len(chunks) + 1 - j]
                                    ELSE [i \in 1..bs |-> 0]],
         pos    |-> 0]

OfbCore_inner_iv_init(cipher, Z, S, iv) ==
    LET bs     == BlockBytes
        chunks == chunks_exact(iv, bs)
    IN  [cipher |-> cipher,
         Z      |-> Z,
         S      |-> S,
         state  |-> [j \in 1..Z |-> IF j <= Len(chunks) THEN chunks[j]
                                    ELSE [i \in 1..bs |-> 0]],
         pos    |-> 0]

OfbCore_encrypt_block_inout_mut(self, blockIn) ==
    LET state_block == CipherEncrypt(self.cipher, self.state[self.pos + 1])
    IN  [out  |-> inout_xor(blockIn, Slice(state_block, 0, self.S)),
         self |-> [self EXCEPT !.state[self.pos + 1] = state_block,
                               !.pos = (self.pos + 1) % self.Z]]

\* Mutant: decryption xors with the slot as it was before the cipher call.
OfbCore_decrypt_block_stale_keystream(self, blockIn) ==
    LET state_block == CipherEncrypt(self.cipher, self.state[self.pos + 1])
    IN  [out  |-> inout_xor(blockIn, Slice(self.state[self.pos + 1], 0, self.S)),
         self |-> [self EXCEPT !.state[self.pos + 1] = state_block,
                               !.pos = (self.pos + 1) % self.Z]]

OfbCore_decrypt_block_inout_mut(self, blockIn) ==
    LET state_block == CipherEncrypt(self.cipher, self.state[self.pos + 1])
    IN  [out  |-> inout_xor(blockIn, Slice(state_block, 0, self.S)),
         self |-> [self EXCEPT !.state[self.pos + 1] = state_block,
                               !.pos = (self.pos + 1) % self.Z]]

\* Mutant: pos advances by two slots per block.
RECURSIVE OfbCore_apply_keystream_skips_slot(_, _)
OfbCore_apply_keystream_skips_slot(self, blocks) ==
    IF blocks = <<>> THEN [out |-> <<>>, self |-> self]
    ELSE LET state_block == CipherEncrypt(self.cipher, self.state[self.pos + 1])
             self1 == [self EXCEPT !.state[self.pos + 1] = state_block,
                                   !.pos = (self.pos + 2) % self.Z]
             out1  == inout_xor(blocks[1], Slice(state_block, 0, self.S))
             rest  == OfbCore_apply_keystream_skips_slot(self1, Tail(blocks))
         IN  [out |-> <<out1>> \o rest.out, self |-> rest.self]

\* Mutant: the ring slot takes the bytes written to the output in place of
\* the leading keystream bytes.
RECURSIVE OfbCore_apply_keystream_feeds_output(_, _)
OfbCore_apply_keystream_feeds_output(self, blocks) ==
    IF blocks = <<>> THEN [out |-> <<>>, self |-> self]
    ELSE LET state_block == CipherEncrypt(self.cipher, self.state[self.pos + 1])
             out1  == inout_xor(blocks[1], Slice(state_block, 0, self.S))
             slot  == [i \in 1..BlockBytes |-> IF i <= self.S THEN out1[i]
                                               ELSE state_block[i]]
             self1 == [self EXCEPT !.state[self.pos + 1] = slot,
                                   !.pos = (self.pos + 1) % self.Z]
             rest  == OfbCore_apply_keystream_feeds_output(self1, Tail(blocks))
         IN  [out |-> <<out1>> \o rest.out, self |-> rest.self]

RECURSIVE OfbCore_apply_keystream_blocks(_, _)
OfbCore_apply_keystream_blocks(self, blocks) ==
    IF blocks = <<>> THEN [out |-> <<>>, self |-> self]
    ELSE LET state_block == CipherEncrypt(self.cipher, self.state[self.pos + 1])
             self1 == [self EXCEPT !.state[self.pos + 1] = state_block,
                                   !.pos = (self.pos + 1) % self.Z]
             out1  == inout_xor(blocks[1], Slice(state_block, 0, self.S))
             rest  == OfbCore_apply_keystream_blocks(self1, Tail(blocks))
         IN  [out |-> <<out1>> \o rest.out, self |-> rest.self]

\* Mutant: the ring is exported in slot order, whatever pos is.
OfbCore_iv_state_slot_order(self) ==
    LET bs == BlockBytes
    IN  [i \in 1..(self.Z * bs) |-> self.state[((i - 1) \div bs) + 1][((i - 1) % bs) + 1]]

OfbCore_iv_state(self) ==
    LET bs == BlockBytes
    IN  [i \in 1..(self.Z * bs) |->
           self.state[((self.pos + ((i - 1) \div bs)) % self.Z) + 1][((i - 1) % bs) + 1]]

\* The operations that process one block.
OfbOps == {"encrypt_block_inout_mut", "decrypt_block_inout_mut", "apply_keystream_blocks"}

\* One block through the operation named op.
OfbProcess(op, self, blockIn) ==
    IF op = "encrypt_block_inout_mut" THEN OfbCore_encrypt_block_inout_mut(self, blockIn)
    ELSE IF op = "decrypt_block_inout_mut" THEN OfbCore_decrypt_block_inout_mut(self, blockIn)
    ELSE LET r == OfbCore_apply_keystream_blocks(self, <<blockIn>>)
         IN  [out |-> r.out[1], self |-> r.self]

\* Output widths S explored: one byte, the whole block.
OfbWidths == {1, BlockBytes}

\* Pairs of a cipher key and an IV seed the OFB cores are made from.
OfbSetups == {<<3, 1>>, <<200, 5>>}

\* A core (orig) processes blocks; at some point its iv_state is taken and a
\* second core (fresh) is made from it with the same cipher; from then on both
\* are given the same blocks.  din and out are the blocks given to orig and
\* emitted by it, n the number of them before the export, fout what fresh
\* emitted.
OfbInit ==
    /\ \E Z \in 1..MaxZ, S \in OfbWidths, ks \in OfbSetups :
         LET iv == MkIv(ks[2], Z, BlockBytes)
         IN  ofb = [iv    |-> iv,
                    orig  |-> OfbCore_inner_iv_init(ks[1], Z, S, iv),
                    fresh |-> Idle,
                    exported |-> FALSE, n |-> 0,
                    din |-> <<>>, out |-> <<>>, fout |-> <<>>]
    /\ cbc = Idle /\ gcfb = Idle /\ cfb = Idle /\ ctr = Idle
    /\ aes = Idle /\ tdes = Idle

OfbProcessBlock ==
    /\ ~ofb.exported
    /\ Len(ofb.din) < MaxBlocks
    /\ \E s \in DataSeeds, op \in OfbOps :
         LET p == MkBytes(s, ofb.orig.S)
             r == OfbProcess(op, ofb.orig, p)
         IN  ofb' = [ofb EXCEPT !.orig = r.self,
                                !.din  = Append(@, p),
                                !.out  = Append(@, r.out),
                                !.n    = @ + 1]
    /\ UNCHANGED <<cbc, gcfb, cfb, ctr, aes, tdes>>

OfbExportImport ==
    /\ ~ofb.exported
    /\ ofb' = [ofb EXCEPT !.fresh = OfbCore_inner_iv_init(ofb.orig.cipher, ofb.orig.Z,
                                                          ofb.orig.S, OfbCore_iv_state(ofb.orig)),
                          !.exported = TRUE]
    /\ UNCHANGED <<cbc, gcfb, cfb, ctr, aes, tdes>>

OfbContinueBlock ==
    /\ ofb.exported
    /\ Len(ofb.din) < MaxBlocks
    /\ \E s \in DataSeeds, op \in OfbOps :
         LET p  == MkBytes(s, ofb.orig.S)
             ro == OfbProcess(op, ofb.orig, p)
             rf == OfbProcess(op, ofb.fresh, p)
         IN  ofb' = [ofb EXCEPT !.orig  = ro.self,
                                !.fresh = rf.self,
                                !.din   = Append(@, p),
                                !.out   = Append(@, ro.out),
                                !.fout  = Append(@, rf.out)]
    /\ UNCHANGED <<cbc, gcfb, cfb, ctr, aes, tdes>>

OfbNext == OfbProcessBlock \/ OfbExportImport \/ OfbContinueBlock

SpecOfb == OfbInit /\ [][OfbNext]_vars

--------------------------------------------------------------------------
(* AES with runtime detection of the AES instructions: aes/src/autodetect.rs *)

\* The three cipher types the macro define_aes_impl defines.
AesNames == {"Aes128", "Aes192", "Aes256"}

AesKeySize(name) == IF name = "Aes128" THEN 16 ELSE IF name = "Aes192" THEN 24 ELSE 32

\* Rounds of the cipher (specification, section 4.1).
AesRounds(name) == IF name = "Aes128" THEN 10 ELSE IF name = "Aes192" THEN 12 ELSE 14

RECURSIVE SumBytes(_, _)
SumBytes(key, i) == IF i = 0 THEN 0 ELSE (key[i] * i + SumBytes(key, i - 1)) % 256

\* The permutation of the 16-byte blocks that a key of a cipher type selects.
AesPermutation(name, key) == (SumBytes(key, Len(key)) + AesRounds(name)) % 256

\* The outcome of a block operation: the value written to the output, or a
\* fault with nothing written.
Done(val) == [fault |-> "none", val |-> val]
Fault(kind) == [fault |-> kind, val |-> <<>>]

\* The "soft" backend: soft::Aes128 and its siblings.
Soft_new(name, key) == [impl |-> "soft", name |-> name, key |-> key]
Soft_encrypt_block_inout(sched, block) ==
    Done(CipherEncrypt(AesPermutation(sched.name, sched.key), block))
Soft_decrypt_block_inout(sched, block) ==
    Done(CipherDecrypt(AesPermutation(sched.name, sched.key), block))
\* The batched paths with a pre hook that selects the input buffer and a post
\* hook that does nothing: every block is processed on its own, in order.
Soft_encrypt_blocks_with_pre(sched, blocks) ==
    Done([i \in 1..Len(blocks) |-> Soft_encrypt_block_inout(sched, blocks[i]).val])
Soft_decrypt_blocks_with_pre(sched, blocks) ==
    Done([i \in 1..Len(blocks) |-> Soft_decrypt_block_inout(sched, blocks[i]).val])

\* The backend of the AES instructions (ni::Aes128, armv8::Aes128 and their
\* siblings): the same cipher; on a CPU without the instructions the first of
\* them is an illegal instruction.
Intrinsics_new(cpu, name, key) ==
    [impl |-> IF cpu THEN "intrinsics" ELSE "illegal instruction", name |-> name, key |-> key]
Intrinsics_encrypt_block_inout(cpu, sched, block) ==
    IF cpu THEN Done(CipherEncrypt(AesPermutation(sched.name, sched.key), block))
    ELSE Fault("illegal instruction")
Intrinsics_decrypt_block_inout(cpu, sched, block) ==
    IF cpu THEN Done(CipherDecrypt(AesPermutation(sched.name, sched.key), block))
    ELSE Fault("illegal instruction")
Intrinsics_encrypt_blocks_with_pre(cpu, sched, blocks) ==
    IF cpu THEN Done([i \in 1..Len(blocks) |->
                        Intrinsics_encrypt_block_inout(cpu, sched, blocks[i]).val])
    ELSE Fault("illegal instruction")
Intrinsics_decrypt_blocks_with_pre(cpu, sched, blocks) ==
    IF cpu THEN Done([i \in 1..Len(blocks) |->
                        Intrinsics_decrypt_block_inout(cpu, sched, blocks[i]).val])
    ELSE Fault("illegal instruction")

\* Mutant: the first init_get stores 1, "initialised", whatever the probe
\* found.
aes_intrinsics_init_get_stores_flag(storage, cpu) ==
    IF storage = 255 THEN [storage |-> 1, present |-> cpu]
    ELSE [storage |-> storage, present |-> storage = 1]

\* cpufeatures::new!(aes_intrinsics, "aes"): a static byte holding 255 until
\* the first init_get, then the result of the probe, 1 or 0.
aes_intrinsics_init_get(storage, cpu) ==
    IF storage = 255 THEN [storage |-> IF cpu THEN 1 ELSE 0, present |-> cpu]
    ELSE [storage |-> storage, present |-> storage = 1]

\* InitToken::get reads the static.
InitToken_get(storage) == storage = 1

\* What the use of a union arm other than the one written can give: a trap,
\* or any block (any list of blocks, for the batched operations).
UndefinedBlock == {Fault("trap")} \cup {Done(MkBytes(s, 16)) : s \in DataSeeds}
UndefinedBlocks ==
    {Fault("trap")} \cup {Done(<<MkBytes(s, 16), MkBytes(t, 16)>>) : s, t \in DataSeeds}

\* What a clone made from the arm that was not written holds.
UndefinedSchedule(name) == [impl |-> "undefined", name |-> name, key |-> <<>>]

\* Whether the arm of self is the one written and holds a cipher.
ArmLive(self, arm) == self.arm = arm /\ self.inner.impl = arm

\* KeyInit::new: the static after the call and the instance made.
Aes_new(storage, cpu, name, key) ==
    LET t == aes_intrinsics_init_get(storage, cpu)
    IN  [storage |-> t.storage,
         inst    |-> IF t.present
                     THEN [name |-> name, arm |-> "intrinsics",
                           inner |-> Intrinsics_new(cpu, name, key)]
                     ELSE [name |-> name, arm |-> "soft", inner |-> Soft_new(name, key)]]

\* Mutant: clone reads the soft arm whatever the token says.
Aes_clone_reads_soft(storage, self) ==
    [name |-> self.name, arm |-> IF InitToken_get(storage) THEN "intrinsics" ELSE "soft",
     inner |-> IF ArmLive(self, "soft") THEN self.inner
               ELSE UndefinedSchedule(self.name)]

\* Clone::clone: the instance made.
Aes_clone(storage, self) ==
    IF InitToken_get(storage)
    THEN [name |-> self.name, arm |-> "intrinsics",
          inner |-> IF ArmLive(self, "intrinsics") THEN self.inner
                    ELSE UndefinedSchedule(self.name)]
    ELSE [name |-> self.name, arm |-> "soft",
          inner |-> IF ArmLive(self, "soft") THEN self.inner
                    ELSE UndefinedSchedule(self.name)]

\* Mutant: the intrinsics arm is used when the token reads false.
Aes_encrypt_block_inout_inverted(storage, cpu, self, block) ==
    IF ~InitToken_get(storage)
    THEN IF ArmLive(self, "intrinsics")
         THEN {Intrinsics_encrypt_block_inout(cpu, self.inner, block)}
         ELSE UndefinedBlock
    ELSE IF ArmLive(self, "soft")
         THEN {Soft_encrypt_block_inout(self.inner, block)}
         ELSE UndefinedBlock

\* The block operations: the outcomes the call can have.
Aes_encrypt_block_inout(storage, cpu, self, block) ==
    IF InitToken_get(storage)
    THEN IF ArmLive(self, "intrinsics")
         THEN {Intrinsics_encrypt_block_inout(cpu, self.inner, block)}
         ELSE UndefinedBlock
    ELSE IF ArmLive(self, "soft")
         THEN {Soft_encrypt_block_inout(self.inner, block)}
         ELSE UndefinedBlock

Aes_encrypt_blocks_with_pre(storage, cpu, self, blocks) ==
    IF InitToken_get(storage)
    THEN IF ArmLive(self, "intrinsics")
         THEN {Intrinsics_encrypt_blocks_with_pre(cpu, self.inner, blocks)}
         ELSE UndefinedBlocks
    ELSE IF ArmLive(self, "soft")
         THEN {Soft_encrypt_blocks_with_pre(self.inner, blocks)}
         ELSE UndefinedBlocks

\* Mutant: decryption reads the soft arm when the token reads true.
Aes_decrypt_block_inout_inverted(storage, cpu, self, block) ==
    IF ~InitToken_get(storage)
    THEN IF ArmLive(self, "intrinsics")
         THEN {Intrinsics_decrypt_block_inout(cpu, self.inner, block)}
         ELSE UndefinedBlock
    ELSE IF ArmLive(self, "soft")
         THEN {Soft_decrypt_block_inout(self.inner, block)}
         ELSE UndefinedBlock

Aes_decrypt_block_inout(storage, cpu, self, block) ==
    IF InitToken_get(storage)
    THEN IF ArmLive(self, "intrinsics")
         THEN {Intrinsics_decrypt_block_inout(cpu, self.inner, block)}
         ELSE UndefinedBlock
    ELSE IF ArmLive(self, "soft")
         THEN {Soft_decrypt_block_inout(self.inner, block)}
         ELSE UndefinedBlock

Aes_decrypt_blocks_with_pre(storage, cpu, self, blocks) ==
    IF InitToken_get(storage)
    THEN IF ArmLive(self, "intrinsics")
         THEN {Intrinsics_decrypt_blocks_with_pre(cpu, self.inner, blocks)}
         ELSE UndefinedBlocks
    ELSE IF ArmLive(self, "soft")
         THEN {Soft_decrypt_blocks_with_pre(self.inner, blocks)}
         ELSE UndefinedBlocks

\* Largest number of cipher instances alive in one run.
MaxInsts == 2

\* The cipher types and key seeds instances are made from, and the seeds of
\* the blocks they are given.
AesSetups == {<<"Aes128", 1>>, <<"Aes192", 7>>, <<"Aes256", 1>>}
AesDataSeeds == {0, 2}

\* cpu: whether the CPU has the AES instructions; storage: the static of the
\* feature token; insts: the instances made so far, each with the key it was
\* made from; last: the last block operation, its input and its outcome.
AesInit ==
    /\ \E c \in BOOLEAN :
         aes = [cpu |-> c, storage |-> 255, insts |-> <<>>, last |-> Idle]
    /\ cbc = Idle /\ gcfb = Idle /\ cfb = Idle /\ ctr = Idle /\ ofb = Idle
    /\ tdes = Idle

AesNew ==
    /\ Len(aes.insts) < MaxInsts
    /\ \E su \in AesSetups :
         LET name == su[1]
             key  == MkBytes(su[2], AesKeySize(name))
             r    == Aes_new(aes.storage, aes.cpu, name, key)
         IN  aes' = [aes EXCEPT !.storage = r.storage,
                                !.insts = Append(@, [obj |-> r.inst, key |-> key,
                                                     via |-> "new"])]
    /\ UNCHANGED <<cbc, gcfb, cfb, ctr, ofb, tdes>>

AesClone ==
    /\ Len(aes.insts) < MaxInsts
    /\ \E i \in 1..Len(aes.insts) :
         LET c == Aes_clone(aes.storage, aes.insts[i].obj)
         IN  aes' = [aes EXCEPT !.insts = Append(@, [obj |-> c, key |-> aes.insts[i].key,
                                                     via |-> "clone"])]
    /\ UNCHANGED <<cbc, gcfb, cfb, ctr, ofb, tdes>>

AesEncryptBlock ==
    /\ \E i \in 1..Len(aes.insts), s \in AesDataSeeds :
         LET b == MkBytes(s, 16)
         IN  \E o \in Aes_encrypt_block_inout(aes.storage, aes.cpu, aes.insts[i].obj, b) :
               aes' = [aes EXCEPT !.last = [op |-> "encrypt_block_inout", inst |-> i,
                                            input |-> b, out |-> o]]
    /\ UNCHANGED <<cbc, gcfb, cfb, ctr, ofb, tdes>>

AesDecryptBlock ==
    /\ \E i \in 1..Len(aes.insts), s \in AesDataSeeds :
         LET b == MkBytes(s, 16)
         IN  \E o \in Aes_decrypt_block_inout(aes.storage, aes.cpu, aes.insts[i].obj, b) :
               aes' = [aes EXCEPT !.last = [op |-> "decrypt_block_inout", inst |-> i,
                                            input |-> b, out |-> o]]
    /\ UNCHANGED <<cbc, gcfb, cfb, ctr, ofb, tdes>>

AesEncryptBlocks ==
    /\ \E i \in 1..Len(aes.insts), s \in AesDataSeeds :
         LET bs == <<MkBytes(s, 16), MkBytes(s + 1, 16)>>
         IN  \E o \in Aes_encrypt_blocks_with_pre(aes.storage, aes.cpu, aes.insts[i].obj, bs) :
               aes' = [aes EXCEPT !.last = [op |-> "encrypt_blocks_with_pre", inst |-> i,
                                            input |-> bs, out |-> o]]
    /\ UNCHANGED <<cbc, gcfb, cfb, ctr, ofb, tdes>>

AesDecryptBlocks ==
    /\ \E i \in 1..Len(aes.insts), s \in AesDataSeeds :
         LET bs == <<MkBytes(s, 16), MkBytes(s + 1, 16)>>
         IN  \E o \in Aes_decrypt_blocks_with_pre(aes.storage, aes.cpu, aes.insts[i].obj, bs) :
               aes' = [aes EXCEPT !.last = [op |-> "decrypt_blocks_with_pre", inst |-> i,
                                            input |-> bs, out |-> o]]
    /\ UNCHANGED <<cbc, gcfb, cfb, ctr, ofb, tdes>>

\* The blocks the last operation wrote, when it wrote any: the block of a
\* single-block operation, the blocks of a batched one.
AesLastBlocks ==
    IF aes.last = Idle \/ aes.last.out.fault # "none" THEN <<>>
    ELSE IF aes.last.op \in {"encrypt_block_inout", "decrypt_block_inout"}
         THEN <<[input |-> aes.last.input, out |-> aes.last.out.val]>>
         ELSE [j \in 1..Len(aes.last.input) |->
                 [input |-> aes.last.input[j], out |-> aes.last.out.val[j]]]

\* decrypt_block_inout of a block that the last operation, an encryption by
\* the same instance, wrote; origin is the block that encryption was given.
AesDecryptEncrypted ==
    /\ aes.last # Idle
    /\ aes.last.op \in {"encrypt_block_inout", "encrypt_blocks_with_pre"}
    /\ \E j \in 1..Len(AesLastBlocks) :
         LET b == AesLastBlocks[j]
         IN  \E o \in Aes_decrypt_block_inout(aes.storage, aes.cpu,
                                              aes.insts[aes.last.inst].obj, b.out) :
               aes' = [aes EXCEPT !.last = [op |-> "decrypt_block_inout",
                                            inst |-> aes.last.inst, input |-> b.out,
                                            out |-> o, origin |-> b.input,
                                            after |-> aes.last.op]]
    /\ UNCHANGED <<cbc, gcfb, cfb, ctr, ofb, tdes>>

\* encrypt_block_inout of a block that the last operation, a decryption by
\* the same instance, wrote.
AesEncryptDecrypted ==
    /\ aes.last # Idle
    /\ aes.last.op \in {"decrypt_block_inout", "decrypt_blocks_with_pre"}
    /\ \E j \in 1..Len(AesLastBlocks) :
         LET b == AesLastBlocks[j]
         IN  \E o \in Aes_encrypt_block_inout(aes.storage, aes.cpu,
                                              aes.insts[aes.last.inst].obj, b.out) :
               aes' = [aes EXCEPT !.last = [op |-> "encrypt_block_inout",
                                            inst |-> aes.last.inst, input |-> b.out,
                                            out |-> o, origin |-> b.input,
                                            after |-> aes.last.op]]
    /\ UNCHANGED <<cbc, gcfb, cfb, ctr, ofb, tdes>>

AesNext ==
    \/ AesNew
    \/ AesClone
    \/ AesEncryptBlock
    \/ AesDecryptBlock
    \/ AesEncryptBlocks
    \/ AesDecryptBlocks
    \/ AesDecryptEncrypted
    \/ AesEncryptDecrypted

SpecAes == AesInit /\ [][AesNext]_vars

\* What the soft implementation made from the same key returns for an
\* operation and its input.
SoftResult(op, name, key, input) ==
    LET soft == Soft_new(name, key)
    IN  IF op = "encrypt_block_inout" THEN Soft_encrypt_block_inout(soft, input)
        ELSE IF op = "decrypt_block_inout" THEN Soft_decrypt_block_inout(soft, input)
        ELSE IF op = "encrypt_blocks_with_pre" THEN Soft_encrypt_blocks_with_pre(soft, input)
        ELSE Soft_decrypt_blocks_with_pre(soft, input)

--------------------------------------------------------------------------
(* Threads that construct autodetect ciphers and read the feature token.   *)
(* The static is one atomic byte accessed with relaxed ordering: the load  *)
(* that opens init_get may still see the initial 255 after another thread  *)
(* stored, and init_get is not atomic as a whole.                          *)

\* Number of threads, and the largest number of token reads of one thread.
NumThreads == 3
MaxGets == 2

AesThreads == 1..NumThreads

\* pc: where the thread is ("start", "loaded" inside init_get of new, "made"
\* after new); val: the byte its init_get loaded; present: the value its
\* construction resolved; gets: the values its later token reads returned.
AesThreadsInit ==
    /\ \E c \in BOOLEAN :
         aes = [cpu |-> c, storage |-> 255,
                threads |-> [t \in AesThreads |->
                               [pc |-> "start", val |-> 255, present |-> FALSE,
                                gets |-> <<>>]]]
    /\ cbc = Idle /\ gcfb = Idle /\ cfb = Idle /\ ctr = Idle /\ ofb = Idle
    /\ tdes = Idle

\* KeyInit::new, first half: init_get loads the static.
AesThreadLoad(t) ==
    /\ aes.threads[t].pc = "start"
    /\ \E v \in {aes.storage, 255} :
         aes' = [aes EXCEPT !.threads[t].pc = "loaded", !.threads[t].val = v]
    /\ UNCHANGED <<cbc, gcfb, cfb, ctr, ofb, tdes>>

\* KeyInit::new, second half: init_get probes and stores when the byte it
\* loaded was 255, and new builds the instance from the value resolved.
AesThreadNew(t) ==
    /\ aes.threads[t].pc = "loaded"
    /\ LET r == aes_intrinsics_init_get(aes.threads[t].val, aes.cpu)
       IN  aes' = [aes EXCEPT !.storage = IF aes.threads[t].val = 255
                                          THEN r.storage ELSE @,
                              !.threads[t].pc = "made",
                              !.threads[t].present = r.present]
    /\ UNCHANGED <<cbc, gcfb, cfb, ctr, ofb, tdes>>

\* token.get() in clone, encrypt or decrypt, by a thread that made an
\* instance or was handed one made by another thread.
AesThreadGet(t) ==
    /\ aes.threads[t].pc # "loaded"
    /\ \E u \in AesThreads : aes.threads[u].pc = "made"
    /\ Len(aes.threads[t].gets) < MaxGets
    /\ aes' = [aes EXCEPT !.threads[t].gets = Append(@, InitToken_get(aes.storage))]
    /\ UNCHANGED <<cbc, gcfb, cfb, ctr, ofb, tdes>>

AesThreadsNext ==
    \E t \in AesThreads : AesThreadLoad(t) \/ AesThreadNew(t) \/ AesThreadGet(t)

SpecAesThreads == AesThreadsInit /\ [][AesThreadsNext]_vars

--------------------------------------------------------------------------
(* DES (specification, section 4.4): a 16-round Feistel network on the     *)
(* 64-bit block held as a u64, between an initial permutation and its      *)
(* inverse; decryption takes the subkeys in reverse order.                 *)

DesRounds == 16

\* u16 ^ u16
Xor16(a, b) == Xor8(a \div 256, b \div 256) * 256 + Xor8(a % 256, b % 256)

\* The 16 subkeys of a key.
gen_keys(k) ==
    [r \in 1..DesRounds |-> (k[((r - 1) % 4) + 1] + 3 * k[(r % 4) + 1] + 257 * r) % 65536]

\* The round function on a half block and a subkey.
DesF(half, sk) == [j \in 1..2 |-> (5 * (half[j] % 4096) + half[3 - j] + sk + j) % 65536]

RECURSIVE DesFeistel(_, _, _, _)
DesFeistel(l, r, keys, i) ==
    IF i > DesRounds THEN <<r[1], r[2], l[1], l[2]>>
    ELSE LET f == DesF(r, keys[i])
         IN  DesFeistel(r, <<Xor16(l[1], f[1]), Xor16(l[2], f[2])>>, keys, i + 1)

DesIP(x) == <<x[2], x[3], x[4], x[1]>>
DesFP(x) == <<x[4], x[1], x[2], x[3]>>

\* A u64: four 16-bit limbs, the most significant first.
IsU64(x) == Len(x) = 4 /\ \A j \in 1..4 : x[j] \in 0..65535

Des_encrypt(des, data) ==
    LET x == DesIP(data)
    IN  IF IsU64(data)
        THEN DesFP(DesFeistel(<<x[1], x[2]>>, <<x[3], x[4]>>, des.keys, 1))
        ELSE data

Des_decrypt(des, data) ==
    LET x   == DesIP(data)
        rev == [i \in 1..DesRounds |-> des.keys[DesRounds + 1 - i]]
    IN  IF IsU64(data)
        THEN DesFP(DesFeistel(<<x[1], x[2]>>, <<x[3], x[4]>>, rev, 1))
        ELSE data

--------------------------------------------------------------------------
(* Triple DES: des/src/tdes.rs *)

TdesEde3_new(key) ==
    LET k1 == from_be_bytes(Slice(key, 0, 8))
        k2 == from_be_bytes(Slice(key, 8, 16))
        k3 == from_be_bytes(Slice(key, 16, 24))
    IN  [d1 |-> [keys |-> gen_keys(k1)],
         d2 |-> [keys |-> gen_keys(k2)],
         d3 |-> [keys |-> gen_keys(k3)]]

\* Mutant: the middle step of the three-key EDE encryption encrypts.
TdesEde3_encrypt_block_middle_encrypts(self, blockIn) ==
    LET data0 == from_be_bytes(blockIn)
        data1 == Des_encrypt(self.d1, data0)
        data2 == Des_encrypt(self.d2, data1)
        data3 == Des_encrypt(self.d3, data2)
    IN  to_be_bytes(data3)

TdesEde3_encrypt_block_inout(self, blockIn) ==
    LET data0 == from_be_bytes(blockIn)
        data1 == Des_encrypt(self.d1, data0)
        data2 == Des_decrypt(self.d2, data1)
        data3 == Des_encrypt(self.d3, data2)
    IN  to_be_bytes(data3)

\* Mutant: decryption takes the three keys in the order of encryption.
TdesEde3_decrypt_block_forward(self, blockIn) ==
    LET data0 == from_be_bytes(blockIn)
        data1 == Des_decrypt(self.d1, data0)
        data2 == Des_encrypt(self.d2, data1)
        data3 == Des_decrypt(self.d3, data2)
    IN  to_be_bytes(data3)

TdesEde3_decrypt_block_inout(self, blockIn) ==
    LET data0 == from_be_bytes(blockIn)
        data1 == Des_decrypt(self.d3, data0)
        data2 == Des_encrypt(self.d2, data1)
        data3 == Des_decrypt(self.d1, data2)
    IN  to_be_bytes(data3)

TdesEee3_new(key) ==
    LET k1 == from_be_bytes(Slice(key, 0, 8))
        k2 == from_be_bytes(Slice(key, 8, 16))
        k3 == from_be_bytes(Slice(key, 16, 24))
    IN  [d1 |-> [keys |-> gen_keys(k1)],
         d2 |-> [keys |-> gen_keys(k2)],
         d3 |-> [keys |-> gen_keys(k3)]]

TdesEee3_encrypt_block_inout(self, blockIn) ==
    LET data0 == from_be_bytes(blockIn)
        data1 == Des_encrypt(self.d1, data0)
        data2 == Des_encrypt(self.d2, data1)
        data3 == Des_encrypt(self.d3, data2)
    IN  to_be_bytes(data3)

TdesEee3_decrypt_block_inout(self, blockIn) ==
    LET data0 == from_be_bytes(blockIn)
        data1 == Des_decrypt(self.d3, data0)
        data2 == Des_decrypt(self.d2, data1)
        data3 == Des_decrypt(self.d1, data2)
    IN  to_be_bytes(data3)

TdesEde2_new(key) ==
    LET k1 == from_be_bytes(Slice(key, 0, 8))
        k2 == from_be_bytes(Slice(key, 8, 16))
    IN  [d1 |-> [keys |-> gen_keys(k1)],
         d2 |-> [keys |-> gen_keys(k2)]]

\* Mutant: the middle step of the two-key EDE encryption encrypts.
TdesEde2_encrypt_block_middle_encrypts(self, blockIn) ==
    LET data0 == from_be_bytes(blockIn)
        data1 == Des_encrypt(self.d1, data0)
        data2 == Des_encrypt(self.d2, data1)
        data3 == Des_encrypt(self.d1, data2)
    IN  to_be_bytes(data3)

TdesEde2_encrypt_block_inout(self, blockIn) ==
    LET data0 == from_be_bytes(blockIn)
        data1 == Des_encrypt(self.d1, data0)
        data2 == Des_decrypt(self.d2, data1)
        data3 == Des_encrypt(self.d1, data2)
    IN  to_be_bytes(data3)

TdesEde2_decrypt_block_inout(self, blockIn) ==
    LET data0 == from_be_bytes(blockIn)
        data1 == Des_decrypt(self.d1, data0)
        data2 == Des_encrypt(self.d2, data1)
        data3 == Des_decrypt(self.d1, data2)
    IN  to_be_bytes(data3)

TdesEee2_new(key) ==
    LET k1 == from_be_bytes(Slice(key, 0, 8))
        k2 == from_be_bytes(Slice(key, 8, 16))
    IN  [d1 |-> [keys |-> gen_keys(k1)],
         d2 |-> [keys |-> gen_keys(k2)]]

TdesEee2_encrypt_block_inout(self, blockIn) ==
    LET data0 == from_be_bytes(blockIn)
        data1 == Des_encrypt(self.d1, data0)
        data2 == Des_encrypt(self.d2, data1)
        data3 == Des_encrypt(self.d1, data2)
    IN  to_be_bytes(data3)

TdesEee2_decrypt_block_inout(self, blockIn) ==
    LET data0 == from_be_bytes(blockIn)
        data1 == Des_decrypt(self.d1, data0)
        data2 == Des_decrypt(self.d2, data1)
        data3 == Des_decrypt(self.d1, data2)
    IN  to_be_bytes(data3)

\* The four cipher types behind one interface; v names the type.
TdesVariants == {"TdesEde3", "TdesEee3", "TdesEde2", "TdesEee2"}

TdesKeySize(v) == IF v \in {"TdesEde3", "TdesEee3"} THEN 24 ELSE 16

Tdes_new(v, key) ==
    IF v = "TdesEde3" THEN TdesEde3_new(key)
    ELSE IF v = "TdesEee3" THEN TdesEee3_new(key)
    ELSE IF v = "TdesEde2" THEN TdesEde2_new(key)
    ELSE TdesEee2_new(key)

Tdes_encrypt_block_inout(v, self, blockIn) ==
    IF v = "TdesEde3" THEN TdesEde3_encrypt_block_inout(self, blockIn)
    ELSE IF v = "TdesEee3" THEN TdesEee3_encrypt_block_inout(self, blockIn)
    ELSE IF v = "TdesEde2" THEN TdesEde2_encrypt_block_inout(self, blockIn)
    ELSE TdesEee2_encrypt_block_inout(self, blockIn)

Tdes_decrypt_block_inout(v, self, blockIn) ==
    IF v = "TdesEde3" THEN TdesEde3_decrypt_block_inout(self, blockIn)
    ELSE IF v = "TdesEee3" THEN TdesEee3_decrypt_block_inout(self, blockIn)
    ELSE IF v = "TdesEde2" THEN TdesEde2_decrypt_block_inout(self, blockIn)
    ELSE TdesEee2_decrypt_block_inout(self, blockIn)

\* Seeds of the Triple-DES keys, and the keys: distinct 8-byte parts, and
\* the same 8 bytes in every part.
TdesKeySeeds == {1, 4}
TdesKeys(v) ==
    {MkBytes(s, TdesKeySize(v)) : s \in TdesKeySeeds}
        \cup {[i \in 1..TdesKeySize(v) |-> (((i - 1) % 8) * 37 + 11) % 256]}

\* Largest number of block operations applied in a row to one block.
MaxTdesOps == 3

\* A cipher instance and a block: blocks[1] is the block given, blocks[i+1]
\* what the operation ops[i] made of blocks[i].
TdesInit ==
    /\ \E v \in TdesVariants, s \in DataSeeds :
         \E key \in TdesKeys(v) :
           tdes = [variant |-> v, key |-> key, obj |-> Tdes_new(v, key),
                   blocks |-> <<MkBytes(s + 1, 8)>>, ops |-> <<>>]
    /\ cbc = Idle /\ gcfb = Idle /\ cfb = Idle /\ ctr = Idle /\ ofb = Idle
    /\ aes = Idle

TdesEncryptBlock ==
    /\ Len(tdes.ops) < MaxTdesOps
    /\ tdes' = [tdes EXCEPT
                  !.blocks = Append(@, Tdes_encrypt_block_inout(tdes.variant, tdes.obj,
                                                                @[Len(@)])),
                  !.ops = Append(@, "encrypt")]
    /\ UNCHANGED <<cbc, gcfb, cfb, ctr, ofb, aes>>

TdesDecryptBlock ==
    /\ Len(tdes.ops) < MaxTdesOps
    /\ tdes' = [tdes EXCEPT
                  !.blocks = Append(@, Tdes_decrypt_block_inout(tdes.variant, tdes.obj,
                                                                @[Len(@)])),
                  !.ops = Append(@, "decrypt")]
    /\ UNCHANGED <<cbc, gcfb, cfb, ctr, ofb, aes>>

TdesNext == TdesEncryptBlock \/ TdesDecryptBlock

SpecTdes == TdesInit /\ [][TdesNext]_vars

--------------------------------------------------------------------------
(* The standard CBC mode of the specification (section 4.6): the previous  *)
(* ciphertext block is the only state.                                     *)

RECURSIVE StdCbcEncrypt(_, _, _)
StdCbcEncrypt(k, prev, pts) ==
    IF pts = <<>> THEN <<>>
    ELSE LET c == CipherEncrypt(k, xor(pts[1], prev))
         IN  <<c>> \o StdCbcEncrypt(k, c, Tail(pts))

RECURSIVE StdCbcDecrypt(_, _, _)
StdCbcDecrypt(k, prev, cts) ==
    IF cts = <<>> THEN <<>>
    ELSE <<xor(CipherDecrypt(k, cts[1]), prev)>> \o StdCbcDecrypt(k, cts[1], Tail(cts))

--------------------------------------------------------------------------
(* The Triple-DES table of the specification (section 4.5): per variant   *)
(* the single-DES steps of each direction, read left to right, each step   *)
(* an operation and the number of the 8-byte key part it uses.             *)

TdesTable(v) ==
    IF v = "TdesEde3"
    THEN [encrypt |-> <<<<"E", 1>>, <<"D", 2>>, <<"E", 3>>>>,
          decrypt |-> <<<<"D", 3>>, <<"E", 2>>, <<"D", 1>>>>]
    ELSE IF v = "TdesEee3"
    THEN [encrypt |-> <<<<"E", 1>>, <<"E", 2>>, <<"E", 3>>>>,
          decrypt |-> <<<<"D", 3>>, <<"D", 2>>, <<"D", 1>>>>]
    ELSE IF v = "TdesEde2"
    THEN [encrypt |-> <<<<"E", 1>>, <<"D", 2>>, <<"E", 1>>>>,
          decrypt |-> <<<<"D", 1>>, <<"E", 2>>, <<"D", 1>>>>]
    ELSE [encrypt |-> <<<<"E", 1>>, <<"E", 2>>, <<"E", 1>>>>,
          decrypt |-> <<<<"D", 1>>, <<"D", 2>>, <<"D", 1>>>>]

\* The i-th 8-byte part of a key, counted from the first key byte, as a DES
\* instance.
TdesKeyPart(key, i) == [keys |-> gen_keys(from_be_bytes(Slice(key, 8 * (i - 1), 8 * i)))]

RECURSIVE TdesApplySteps(_, _, _)
TdesApplySteps(steps, key, data) ==
    IF steps = <<>> THEN data
    ELSE LET st  == Head(steps)
             des == TdesKeyPart(key, st[2])
         IN  TdesApplySteps(Tail(steps), key,
                            IF st[1] = "E" THEN Des_encrypt(des, data)
                                           ELSE Des_decrypt(des, data))

\* What the table gives for a variant, a key, a direction and a block.
TdesByTable(v, key, op, block) ==
    to_be_bytes(TdesApplySteps(TdesTable(v)[op], key, from_be_bytes(block)))

--------------------------------------------------------------------------
(* The standard OFB mode of the specification (section 4.8): keystream    *)
(* block K_i = E_K(K_{i-1}) with K_0 = IV.                                 *)

RECURSIVE StdOfbKeystream(_, _, _)
StdOfbKeystream(k, iv, i) ==
    IF i = 0 THEN iv ELSE CipherEncrypt(k, StdOfbKeystream(k, iv, i - 1))

--------------------------------------------------------------------------
(* Arithmetic on unsigned integers held as 16-bit limbs, most significant *)
(* limb first: x + y with the carry out of the top limb.                   *)

RECURSIVE LimbCarry(_, _, _)
\* The carry into limb j (the carry out of limb j + 1).
LimbCarry(x, y, j) ==
    IF j = Len(x) THEN 0
    ELSE (x[j + 1] + y[j + 1] + LimbCarry(x, y, j + 1)) \div 65536

LimbSum(x, y) ==
    [sum   |-> [j \in 1..Len(x) |-> (x[j] + y[j] + LimbCarry(x, y, j)) % 65536],
     carry |-> LimbCarry(x, y, 0)]

\* x widened to u limbs with zero limbs in front.
ZeroExtend(x, u) == [j \in 1..u |-> IF j <= u - Len(x) THEN 0 ELSE x[j - (u - Len(x))]]

\* Whether the last call of the CTR core processed blocks.
CtrLastProcessed ==
    ctr.last.op \in {"encrypt_block_inout_mut", "decrypt_block_inout_mut",
                     "apply_keystream_blocks"}

\* Whether r is the largest value of the counter type of the core minus the
\* counter: r + counter is that largest value, with nothing carried out.
CtrIsMaxMinusCounter(r) ==
    LET w == CtrLimbs(ctr.variant)
    IN  LimbSum(ZeroExtend(r, 4), ZeroExtend(ctr.core.ctr, 4))
            = [sum |-> ZeroExtend(UMaxMinus(0, w), 4), carry |-> 0]

\* Whether the largest counter value minus the counter is a value of usize:
\* usize is as wide as the counter, or the counter is within usize::MAX of
\* its largest value.
CtrRemainingFitsUsize ==
    \/ CtrLimbs(ctr.variant) <= ctr.usize
    \/ \A j \in 1..(CtrLimbs(ctr.variant) - ctr.usize) : ctr.core.ctr[j] = 65535

--------------------------------------------------------------------------
(* Claims *)

\* C1: GOST CBC round-trip.  Feeding the blocks emitted by the encryptor, in
\* order, to a decryptor made from the same key and IV gives back the
\* plaintext blocks: every block the decryptor has emitted equals the
\* plaintext block at the same index.
C1_CbcRoundTrip ==
    cbc # Idle =>
        /\ Len(cbc.out) <= Len(cbc.pt)
        /\ \A i \in 1..Len(cbc.out) : cbc.out[i] = cbc.pt[i]

\* A ring of at least two blocks has gone round more than once and everything
\* was decrypted; the plaintext blocks are not all the same.
C1_Witness ==
    /\ cbc # Idle
    /\ cbc.enc.Z >= 2
    /\ Len(cbc.out) > cbc.enc.Z
    /\ Len(cbc.out) = Len(cbc.pt)
    /\ \E i, j \in 1..Len(cbc.pt) : cbc.pt[i] # cbc.pt[j]

\* C2: GOST CFB round-trip.  For every register length M >= block size and
\* chunk width 1 <= S <= block size, a second Cfb instance made from the same
\* key and IV turns the chunks emitted by encrypt_block_inout_mut back into
\* the plaintext chunks.
C2_GostCfbRoundTrip ==
    gcfb # Idle =>
        /\ Len(gcfb.out) <= Len(gcfb.pt)
        /\ \A i \in 1..Len(gcfb.out) : gcfb.out[i] = gcfb.pt[i]

\* A register longer than the block, chunks narrower than the block, and
\* enough chunks decrypted for the first ciphertext chunk to have reached the
\* head of the register.
C2_Witness ==
    /\ gcfb # Idle
    /\ gcfb.enc.M > BlockBytes
    /\ gcfb.enc.S < BlockBytes
    /\ Len(gcfb.out) = Len(gcfb.pt)
    /\ Len(gcfb.out) * gcfb.enc.S > gcfb.enc.M
    /\ \E i, j \in 1..Len(gcfb.pt) : gcfb.pt[i] # gcfb.pt[j]

\* C3: full-block CFB round-trip.  The blocks emitted by cfb-mode's
\* encrypt_block_inout_mut are turned back into the plaintext blocks by
\* decrypt_block_inout_mut on an instance made from the same key and IV.
C3_CfbRoundTrip ==
    cfb # Idle =>
        /\ Len(cfb.out) <= Len(cfb.pt)
        /\ \A i \in 1..Len(cfb.out) : cfb.out[i] = cfb.pt[i]

\* Three or more blocks went through both directions, not all the same.
C3_Witness ==
    /\ cfb # Idle
    /\ Len(cfb.out) >= 3
    /\ Len(cfb.out) = Len(cfb.pt)
    /\ \E i, j \in 1..Len(cfb.pt) : cfb.pt[i] # cfb.pt[j]

\* C7: GOST CBC with Z = 1 is the standard CBC.  With a one-block ring the
\* encryptor emits C_i = E_K(P_i xor C_{i-1}) with C_0 = IV and the decryptor
\* emits P_i = D_K(C_i) xor C_{i-1}.
C7_CbcZ1IsStandardCbc ==
    (cbc # Idle /\ cbc.enc.Z = 1) =>
        /\ cbc.ct = StdCbcEncrypt(cbc.enc.cipher, cbc.iv, cbc.pt)
        /\ cbc.out = StdCbcDecrypt(cbc.dec.cipher, cbc.iv, SubSeq(cbc.ct, 1, Len(cbc.out)))

\* A one-block ring that chained three blocks in both directions.
C7_Witness ==
    /\ cbc # Idle
    /\ cbc.enc.Z = 1
    /\ Len(cbc.ct) >= 3
    /\ Len(cbc.out) >= 3
    /\ cbc.pt[1] # cbc.pt[2]

\* C8: GOST CFB with M = S = block size is the full-block CFB.  Given the
\* same key, IV and blocks, the two produce the same outputs and hold the
\* same feedback register after every block, encrypting and decrypting.
C8_GostCfbDefaultIsCfb ==
    (gcfb # Idle /\ cfb # Idle) =>
        /\ gcfb.ct = cfb.ct
        /\ gcfb.out = cfb.out
        /\ GostCfb_iv_state(gcfb.enc) = Cfb_iv_state(cfb.enc)
        /\ GostCfb_iv_state(gcfb.dec) = Cfb_iv_state(cfb.dec)

\* Both pairs have processed at least two blocks.
C8_Witness ==
    /\ gcfb # Idle /\ cfb # Idle
    /\ Len(gcfb.ct) >= 2 /\ Len(cfb.ct) >= 2
    /\ Len(gcfb.out) >= 2 /\ Len(cfb.out) >= 2
    /\ gcfb.din[1] # gcfb.din[2]

\* C4: CTR idempotence.  For both CTR cores, applying the keystream to the
\* blocks a core emitted, from the same block position with the same key and
\* nonce, gives back the original blocks; and encrypt_block_inout_mut and
\* decrypt_block_inout_mut are the same transformation of a core and a block.
C4_CtrIdempotent ==
    (ctr # Idle /\ "enc" \in DOMAIN ctr) =>
        /\ Len(ctr.out) <= Len(ctr.pt)
        /\ \A i \in 1..Len(ctr.out) : ctr.out[i] = ctr.pt[i]
        /\ \A s \in CtrSeeds :
             LET x == MkBytes(s, ctr.enc.S)
             IN  /\ Ctr_encrypt_block_inout_mut(ctr.variant, ctr.enc, x)
                      = Ctr_decrypt_block_inout_mut(ctr.variant, ctr.enc, x)
                 /\ Ctr_encrypt_block_inout_mut(ctr.variant, ctr.dec, x)
                      = Ctr_decrypt_block_inout_mut(ctr.variant, ctr.dec, x)

\* The 128-bit core, moved next to the largest counter, processed three
\* blocks in each direction, so the counter wrapped on the way.
C4_Witness ==
    /\ ctr # Idle /\ "enc" \in DOMAIN ctr
    /\ ctr.variant = "Ctr128Core"
    /\ ctr.seeked
    /\ Len(ctr.out) >= 3
    /\ Len(ctr.out) = Len(ctr.pt)
    /\ ctr.pt[1] # ctr.pt[2]
    /\ ctr.dec.ctr = UInt(1, 4)

\* C5: CTR seek.  On a fresh core, set_block_pos(n) followed by applying the
\* keystream to k blocks gives the last k blocks of what a core started at
\* position 0 gives for any n blocks followed by the same k blocks.
C5_CtrSeek ==
    (ctr # Idle /\ "sk" \in DOMAIN ctr) =>
        \A i \in 1..Len(ctr.skOut) : ctr.skOut[i] = ctr.linOut[ctr.n + i]

\* A seek to block 2 followed by two blocks.
C5_Witness ==
    /\ ctr # Idle /\ "sk" \in DOMAIN ctr
    /\ ctr.seeked
    /\ ctr.n = 2
    /\ Len(ctr.skOut) = 2
    /\ ctr.data[3] # ctr.data[4]

\* C6: OFB state export/import.  After any number n of blocks, a fresh
\* OfbCore made from the same cipher and the iv_state() of the original emits,
\* for every further block, what the original emits for it.
C6_OfbExportImport ==
    (ofb # Idle /\ ofb.exported) =>
        /\ Len(ofb.fout) = Len(ofb.out) - ofb.n
        /\ \A i \in 1..Len(ofb.fout) : ofb.fout[i] = ofb.out[ofb.n + i]

\* The state was exported in the middle of a ring of two or more blocks and
\* the two cores then went once round the ring and further.
C6_Witness ==
    /\ ofb # Idle
    /\ ofb.exported
    /\ ofb.orig.Z >= 2
    /\ ofb.n % ofb.orig.Z # 0
    /\ Len(ofb.fout) > ofb.orig.Z

\* C9: autodetect without AES instructions is the soft path.  When the
\* feature token reads false, every block operation of an autodetect
\* instance (encrypt_block_inout, decrypt_block_inout and the two batched
\* ones) returns what the soft implementation made from the same key returns
\* for the same input.
C9_AutodetectFalseIsSoft ==
    (aes # Idle /\ aes.last # Idle /\ ~InitToken_get(aes.storage)) =>
        LET inst == aes.insts[aes.last.inst]
        IN  aes.last.out = SoftResult(aes.last.op, inst.obj.name, inst.key, aes.last.input)

\* On a CPU without the instructions, a batched decryption by a clone.
C9_Witness ==
    /\ aes # Idle /\ aes.last # Idle
    /\ ~aes.cpu
    /\ aes.storage = 0
    /\ aes.last.op = "decrypt_blocks_with_pre"
    /\ aes.last.inst = 2
    /\ aes.insts[2].via = "clone"

\* C10: Triple-DES round-trip.  For each of the four cipher types, every key
\* and every block, decrypting what encryption gave and encrypting what
\* decryption gave both give back the block: an operation that follows its
\* opposite restores the block the opposite was given.
C10_TdesRoundTrip ==
    tdes # Idle =>
        \A i \in 1..(Len(tdes.ops) - 1) :
            tdes.ops[i] # tdes.ops[i + 1] => tdes.blocks[i + 2] = tdes.blocks[i]

\* A two-key EEE instance decrypted a block, encrypted the result and
\* decrypted again; its two keys differ and the block changed on the way.
C10_Witness ==
    /\ tdes # Idle
    /\ tdes.variant = "TdesEee2"
    /\ tdes.ops = <<"decrypt", "encrypt", "decrypt">>
    /\ tdes.obj.d1 # tdes.obj.d2
    /\ tdes.blocks[2] # tdes.blocks[1]

\* C11: AES round-trip through the dispatcher.  A block that an instance
\* encrypted, alone or in a batch, is restored by decrypt_block_inout of the
\* same instance, and a block it decrypted is restored by
\* encrypt_block_inout; the arm every operation of an instance reads is the
\* arm the instance was made with, so both directions use one backend.
C11_AesRoundTrip ==
    aes # Idle =>
        /\ \A i \in 1..Len(aes.insts) :
             ArmLive(aes.insts[i].obj,
                     IF InitToken_get(aes.storage) THEN "intrinsics" ELSE "soft")
        /\ "origin" \in DOMAIN aes.last => aes.last.out = Done(aes.last.origin)

\* On a CPU with the instructions, a block of a batched encryption was
\* decrypted alone, and the encryption had changed it.
C11_Witness ==
    /\ aes # Idle
    /\ aes.cpu
    /\ "origin" \in DOMAIN aes.last
    /\ aes.last.after = "encrypt_blocks_with_pre"
    /\ aes.last.op = "decrypt_block_inout"
    /\ aes.last.input # aes.last.origin
    /\ aes.insts[aes.last.inst].obj.arm = "intrinsics"

\* C12: Triple-DES composition order.  With the key split in order into
\* 8-byte DES keys k1, k2, (k3), every encryption and decryption of the four
\* types gives what the steps of the table give when applied left to right:
\* EDE3 E1 D2 E3 / D3 E2 D1, EEE3 E1 E2 E3 / D3 D2 D1, EDE2 E1 D2 E1 /
\* D1 E2 D1, EEE2 E1 E2 E1 / D1 D2 D1.
C12_TdesCompositionOrder ==
    tdes # Idle =>
        \A i \in 1..Len(tdes.ops) :
            tdes.blocks[i + 1] = TdesByTable(tdes.variant, tdes.key, tdes.ops[i], tdes.blocks[i])

\* A three-key EDE instance whose three key parts differ encrypted a block
\* and then encrypted the result again.
C12_Witness ==
    /\ tdes # Idle
    /\ tdes.variant = "TdesEde3"
    /\ Len(tdes.ops) >= 2
    /\ tdes.ops[1] = "encrypt" /\ tdes.ops[2] = "encrypt"
    /\ tdes.obj.d1 # tdes.obj.d2 /\ tdes.obj.d2 # tdes.obj.d3 /\ tdes.obj.d1 # tdes.obj.d3
    /\ tdes.blocks[3] # tdes.blocks[1]

\* C13: CTR counter start and wrap.  A fresh core has counter 0; a call that
\* processes n blocks leaves the counter n higher, modulo 2^64 (2^32 for the
\* 64-bit core), so the step from the largest value gives 0, without error.
C13_CtrCounterStartAndWrap ==
    (ctr # Idle /\ "core" \in DOMAIN ctr) =>
        /\ ctr.last.op = "inner_iv_init" => ctr.core.ctr = UInt(0, CtrLimbs(ctr.variant))
        /\ CtrLastProcessed =>
              ctr.core.ctr = LimbSum(ctr.last.before.ctr,
                                     UInt(ctr.last.blocks, CtrLimbs(ctr.variant))).sum

\* The 64-bit core stood at 2^32 - 1 and processed one block: the counter
\* is 0.
C13_Witness ==
    /\ ctr # Idle /\ "core" \in DOMAIN ctr
    /\ ctr.variant = "Ctr64Core"
    /\ ctr.last.op = "encrypt_block_inout_mut"
    /\ ctr.last.before.ctr = UMaxMinus(0, 2)
    /\ ctr.core.ctr = UInt(0, 2)

\* C14: CounterOverflow.  When a call of apply_keystream_blocks reaches a
\* block that would be processed past the largest counter value (u64::MAX,
\* u32::MAX for the 64-bit core), the call returns CounterOverflow instead
\* of wrapping the counter.
C14_CounterOverflowReturned ==
    (/\ ctr # Idle /\ "core" \in DOMAIN ctr
     /\ ctr.last.op = "apply_keystream_blocks"
     /\ \E j \in 0..(ctr.last.blocks - 2) :
          ctr.last.before.ctr = UMaxMinus(j, CtrLimbs(ctr.variant)))
        => ctr.last.ret = "CounterOverflow"

\* C15 as claimed: in every reachable state remaining_blocks reports
\* u64::MAX minus the counter (u32::MAX minus the counter for Ctr64Core).
C15_RemainingBlocksAsClaimed ==
    (ctr # Idle /\ "core" \in DOMAIN ctr /\ ctr.last.op = "remaining_blocks") =>
        /\ ctr.last.ret.some
        /\ CtrIsMaxMinusCounter(ctr.last.ret.val)

\* C15 amended: remaining_blocks reports u64::MAX minus the counter
\* (u32::MAX minus the counter for Ctr64Core) when that value is a value of
\* usize, and None when it is not.
C15_RemainingBlocks ==
    (ctr # Idle /\ "core" \in DOMAIN ctr /\ ctr.last.op = "remaining_blocks") =>
        IF CtrRemainingFitsUsize
        THEN ctr.last.ret.some /\ CtrIsMaxMinusCounter(ctr.last.ret.val)
        ELSE ctr.last.ret = None

\* On a 32-bit target the 128-bit core was moved to u64::MAX - 1, where one
\* block remains before the largest counter value, and processed no block
\* since.
C15_Witness ==
    /\ ctr # Idle /\ "core" \in DOMAIN ctr
    /\ ctr.variant = "Ctr128Core"
    /\ ctr.usize = 2
    /\ ctr.last.op = "remaining_blocks"
    /\ ctr.core.ctr = UMaxMinus(1, 4)
    /\ ctr.last.ret = Some(UInt(1, 2))

\* C16: CTR nonce immutability.  After init, whatever calls of
\* encrypt_block, decrypt_block, apply_keystream_blocks, get_block_pos and
\* set_block_pos were made, the nonce half of the counter block is the IV
\* given at construction, also after the counter wrapped.
C16_CtrNonceImmutable ==
    (ctr # Idle /\ "core" \in DOMAIN ctr) =>
        /\ to_be_bytes(ctr.core.nonce) = ctr.iv
        /\ ctr.core.nonce = ctr.last.before.nonce

\* The 128-bit core was moved next to u64::MAX and a batch of blocks took
\* the counter through the wrap.
C16_Witness ==
    /\ ctr # Idle /\ "core" \in DOMAIN ctr
    /\ ctr.variant = "Ctr128Core"
    /\ ctr.steps >= 2
    /\ ctr.last.op = "apply_keystream_blocks"
    /\ ctr.last.before.ctr = UMaxMinus(1, 4)
    /\ ctr.core.ctr = UInt(1, 4)

\* C17: one-shot feature token under concurrency.  When several threads
\* construct autodetect ciphers concurrently for the first time, every
\* construction resolves the token to the same value, and every later read
\* of the token returns that value.
C17_TokenOneShot ==
    (aes # Idle /\ "threads" \in DOMAIN aes) =>
        \A t \in AesThreads :
            aes.threads[t].pc = "made" =>
                /\ \A u \in AesThreads :
                     /\ aes.threads[u].pc = "made" =>
                           aes.threads[u].present = aes.threads[t].present
                     /\ \A i \in 1..Len(aes.threads[u].gets) :
                           aes.threads[u].gets[i] = aes.threads[t].present
                /\ InitToken_get(aes.storage) = aes.threads[t].present

\* On a CPU with the instructions, two threads were inside their first
\* init_get at the same time, both having loaded 255, and both stored; a
\* third thread that made no instance read the token.
C17_Witness ==
    /\ aes # Idle /\ "threads" \in DOMAIN aes
    /\ aes.cpu
    /\ \E t, u, w \in AesThreads :
         /\ t # u
         /\ aes.threads[t].pc = "made" /\ aes.threads[t].val = 255
         /\ aes.threads[u].pc = "made" /\ aes.threads[u].val = 255
         /\ aes.threads[w].pc = "start" /\ Len(aes.threads[w].gets) >= 1

\* C18: GOST OFB with Z = 1 and S = block size is the standard OFB.  The
\* i-th output is the i-th input xor K_i, where K_i = E_K(K_{i-1}) and
\* K_0 = IV, the state after i blocks is K_i, and encrypt_block_inout_mut,
\* decrypt_block_inout_mut and apply_keystream_blocks give the same output
\* and the same next state for the same block.
C18_OfbDefaultIsStandard ==
    (ofb # Idle /\ ofb.orig.Z = 1 /\ ofb.orig.S = BlockBytes) =>
        /\ \A i \in 1..Len(ofb.out) :
             ofb.out[i] = xor(ofb.din[i], StdOfbKeystream(ofb.orig.cipher, ofb.iv, i))
        /\ ofb.orig.state[1] = StdOfbKeystream(ofb.orig.cipher, ofb.iv, Len(ofb.out))
        /\ ofb.orig.pos = 0
        /\ \A s \in DataSeeds : \A op1, op2 \in OfbOps :
             OfbProcess(op1, ofb.orig, MkBytes(s, BlockBytes))
                 = OfbProcess(op2, ofb.orig, MkBytes(s, BlockBytes))

\* A core with the default parameters processed three blocks or more, not
\* all of them the same.
C18_Witness ==
    /\ ofb # Idle
    /\ ofb.orig.Z = 1 /\ ofb.orig.S = BlockBytes
    /\ ~ofb.exported
    /\ Len(ofb.out) >= 3
    /\ ofb.din[1] # ofb.din[2]
    /\ ofb.out[3] # ofb.din[3]

\* C19: GOST CBC chaining distance.  With ring size Z, the i-th ciphertext
\* block of CbcEncrypt is E_K(P_i xor F_i), where F_i is the i-th block of the
\* IV for the first Z blocks and the ciphertext block Z places earlier after
\* that; ring slot i mod Z holds the last block written there and a slot
\* never written still holds its block of the IV.
C19_CbcChainingDistance ==
    cbc # Idle =>
      LET Z    == cbc.enc.Z
          n    == Len(cbc.ct)
          ivb  == chunks_exact(cbc.iv, BlockBytes)
          F(i) == IF i <= Z THEN ivb[i] ELSE cbc.ct[i - Z]
          written(j) == {i \in 1..n : (i - 1) % Z = j - 1}
          newest(j)  == CHOOSE i \in written(j) : \A h \in written(j) : h <= i
      IN  /\ Len(cbc.pt) = n
          /\ \A i \in 1..n :
                cbc.ct[i] = CipherEncrypt(cbc.enc.cipher, xor(cbc.pt[i], F(i)))
          /\ \A j \in 1..Z :
                cbc.enc.state[j] = IF written(j) = {} THEN ivb[j]
                                   ELSE cbc.ct[newest(j)]

\* A ring of at least two blocks after more than Z blocks, some slot already
\* overwritten twice or still to be, where chaining on the previous block
\* would give another ciphertext.
C19_Witness ==
    /\ cbc # Idle
    /\ cbc.enc.Z >= 2
    /\ Len(cbc.ct) > cbc.enc.Z
    /\ LET n == Len(cbc.ct)
       IN  cbc.ct[n] # CipherEncrypt(cbc.enc.cipher, xor(cbc.pt[n], cbc.ct[n - 1]))

\* C20: GOST CBC position invariant.  In every reachable state of CbcEncrypt
\* and CbcDecrypt, 0 <= pos < Z; pos is 0 after construction and n mod Z after
\* n blocks; and pos + 1 fits in a u8, so the increment that precedes the
\* reduction modulo Z does not overflow, up to the largest ring Z = 255.
C20_CbcPosition ==
    cbc # Idle =>
      /\ cbc.enc.pos \in 0..(cbc.enc.Z - 1)
      /\ cbc.dec.pos \in 0..(cbc.dec.Z - 1)
      /\ cbc.enc.pos = cbc.nenc % cbc.enc.Z
      /\ cbc.dec.pos = cbc.ndec % cbc.dec.Z
      /\ cbc.enc.pos + 1 <= U255
      /\ cbc.dec.pos + 1 <= U255

\* The largest ring with both positions on the last slot, where the next
\* increment gives 255, and with the encryptor then taken round to slot 0.
C20_Witness ==
    /\ cbc # Idle
    /\ cbc.enc.Z = U255
    /\ cbc.nenc = U255
    /\ cbc.enc.pos = 0
    /\ cbc.dec.pos = U255 - 1

\* The M-byte register after n chunks of S bytes were shifted in: the last M
\* bytes of the IV followed by the first n chunks.
GostCfbRegister(iv, chunks, M, S, n) ==
    [i \in 1..M |-> LET idx == n * S + i
                    IN  IF idx <= M THEN iv[idx]
                        ELSE chunks[((idx - M - 1) \div S) + 1][((idx - M - 1) % S) + 1]]

\* C21: GOST CFB step.  Every encrypt or decrypt of an S-byte chunk xors the
\* chunk with the leading S bytes of E_K(leading block-size bytes of the
\* register) and replaces the register by its old bytes [S..M) followed by
\* the ciphertext chunk (the output when encrypting, the input when
\* decrypting); the register keeps length M.
C21_GostCfbStep ==
    gcfb # Idle =>
      LET M == gcfb.enc.M
          S == gcfb.enc.S
          reg(n) == GostCfbRegister(gcfb.iv, gcfb.ct, M, S, n)
          ks(n)  == Slice(CipherEncrypt(gcfb.enc.cipher, Slice(reg(n), 0, BlockBytes)), 0, S)
      IN  /\ Len(gcfb.enc.iv) = M
          /\ Len(gcfb.dec.iv) = M
          /\ gcfb.enc.iv = reg(Len(gcfb.ct))
          /\ gcfb.dec.iv = reg(Len(gcfb.out))
          /\ \A i \in 1..Len(gcfb.ct) :
                gcfb.ct[i] = [j \in 1..S |-> Xor8(gcfb.pt[i][j], ks(i - 1)[j])]
          /\ \A i \in 1..Len(gcfb.out) :
                gcfb.out[i] = [j \in 1..S |-> Xor8(gcfb.ct[i][j], ks(i - 1)[j])]

\* A register longer than the cipher block with chunks shorter than it, after
\* enough chunks that register bytes past the encrypted prefix have moved into
\* it, on both sides.
C21_Witness ==
    /\ gcfb # Idle
    /\ gcfb.enc.M > BlockBytes
    /\ gcfb.enc.S < BlockBytes
    /\ Len(gcfb.ct) * gcfb.enc.S > gcfb.enc.M
    /\ Len(gcfb.out) >= 2
    /\ gcfb.dec.iv # gcfb.iv

\* The cipher handed the hooks non-empty chunks only.
CfbBatchChunksNonEmpty ==
    \A i \in 1..Len(cfb.call.split) : cfb.call.split[i] > 0

CfbBatchEmptySlice ==
    (cfb # Idle /\ "obj" \in DOMAIN cfb) =>
      /\ (cfb.call.op = "decrypt_blocks" /\ cfb.call.blocks = <<>>) =>
            /\ cfb.call.out = <<>>
            /\ cfb.obj.iv = cfb.call.before
            /\ cfb.obj = cfb.seq
      /\ cfb.call.fault <=> ~CfbBatchChunksNonEmpty

\* An empty slice on which the cipher did not invoke the post hook.
CfbBatchEmptySliceSkipped ==
    /\ cfb # Idle /\ "obj" \in DOMAIN cfb
    /\ cfb.call.op = "decrypt_blocks"
    /\ cfb.call.blocks = <<>>
    /\ cfb.call.split = <<>>
    /\ ~cfb.call.fault
    /\ cfb.call.before # cfb.iv

\* An empty slice handed to the post hook as a chunk of no blocks.
CfbBatchEmptySliceHanded ==
    /\ cfb # Idle /\ "obj" \in DOMAIN cfb
    /\ cfb.call.op = "decrypt_blocks"
    /\ cfb.call.blocks = <<>>
    /\ cfb.call.split = <<0>>
    /\ cfb.call.fault
    /\ cfb.call.before # cfb.iv

\* C24: feedback register of the full-block CFB.  The register is the IV
\* while no block has been processed and otherwise the most recent
\* ciphertext block: the block the last encrypt emitted, or the input block
\* of the last single-block or batched decrypt; iv_state returns it.
C24_CfbRegister ==
    (cfb # Idle /\ "obj" \in DOMAIN cfb) =>
      LET expected == IF cfb.last.some THEN cfb.last.val ELSE cfb.iv
      IN  /\ cfb.obj.iv = expected
          /\ cfb.call.iv_state = expected
          /\ cfb.call.op = "encrypt" => cfb.last = Some(cfb.call.out[1])
          /\ (cfb.call.op \in {"decrypt", "decrypt_blocks"} /\ cfb.call.blocks # <<>>)
                => cfb.last = Some(cfb.call.blocks[Len(cfb.call.blocks)])

\* An encrypt after a batched decrypt of several blocks: the register has
\* left the last input block for the emitted block.
C24_Witness ==
    /\ cfb # Idle /\ "obj" \in DOMAIN cfb
    /\ cfb.call.op = "encrypt"
    /\ cfb.calls = 2
    /\ cfb.call.before \in {MkBytes(s, BlockBytes) : s \in CfbSliceSeeds}
    /\ cfb.obj.iv # cfb.call.before
    /\ cfb.obj.iv # cfb.iv

\* The number of the first n blocks that were processed on ring slot j
\* (slots counted from 1) when the blocks go round a ring of Z slots.
OfbSlotUses(j, n, Z) == Cardinality({i \in 1..n : (i - 1) % Z = j - 1})

\* C25: GOST OFB step.  Each processed block replaces ring slot state[pos],
\* and no other, by E_K(state[pos]), xors the first S bytes of the new slot
\* value into the data block and advances pos to (pos + 1) mod Z; pos stays
\* in 0..Z-1.  So after n blocks slot j holds E_K applied to its IV block
\* once per block that met it, and block i was xored with the value slot
\* (i mod Z) had just taken.
C25_OfbStep ==
    ofb # Idle =>
      LET o   == ofb.orig
          Z   == o.Z
          n   == IF ofb.exported THEN ofb.n ELSE Len(ofb.din)
          ivb == chunks_exact(ofb.iv, BlockBytes)
          slot(j, m) == StdOfbKeystream(o.cipher, ivb[j], OfbSlotUses(j, m, Z))
      IN  /\ o.pos \in 0..(Z - 1)
          /\ ofb.exported => ofb.fresh.pos \in 0..(Z - 1)
          /\ ~ofb.exported =>
               /\ o.pos = n % Z
               /\ \A j \in 1..Z : o.state[j] = slot(j, n)
          /\ \A i \in 1..n :
               LET j == ((i - 1) % Z) + 1
               IN  ofb.out[i] = [b \in 1..o.S |-> Xor8(ofb.din[i][b], slot(j, i)[b])]

\* A ring of several slots gone round more than once, with an output width
\* below the block size.
C25_Witness ==
    /\ ofb # Idle
    /\ ~ofb.exported
    /\ ofb.orig.Z >= 2
    /\ ofb.orig.S < BlockBytes
    /\ Len(ofb.din) > ofb.orig.Z
    /\ ofb.orig.pos = 1
    /\ ofb.orig.state[1] # ofb.orig.state[2]

\* state[pos], state[(pos+1) mod Z], ..., state[(pos+Z-1) mod Z] from the
\* i-th of them on, as one byte string.
RECURSIVE OfbRingFrom(_, _)
OfbRingFrom(self, i) ==
    IF i >= self.Z THEN <<>>
    ELSE self.state[((self.pos + i) % self.Z) + 1] \o OfbRingFrom(self, i + 1)

\* C26: OFB exported state layout.  iv_state returns state[pos],
\* state[(pos+1) mod Z], ..., state[(pos+Z-1) mod Z] in this order; an
\* instance that has processed no block exports the IV it was given; and
\* taking iv_state leaves the instance as it was (pos and ring as after the
\* n blocks processed before), the instance made from the export exporting
\* the same bytes.
C26_OfbExportLayout ==
    ofb # Idle =>
      LET o   == ofb.orig
          ivb == chunks_exact(ofb.iv, BlockBytes)
      IN  /\ OfbCore_iv_state(o) = OfbRingFrom(o, 0)
          /\ Len(OfbCore_iv_state(o)) = o.Z * BlockBytes
          /\ Len(ofb.din) = 0 => OfbCore_iv_state(o) = ofb.iv
          /\ (ofb.exported /\ Len(ofb.din) = ofb.n) =>
               /\ o.pos = ofb.n % o.Z
               /\ \A j \in 1..o.Z :
                    o.state[j] = StdOfbKeystream(o.cipher, ivb[j],
                                                 OfbSlotUses(j, ofb.n, o.Z))
               /\ ofb.fresh.pos = 0
               /\ OfbCore_iv_state(ofb.fresh) = OfbCore_iv_state(o)

\* An export taken in the middle of a ring of several slots, where the
\* exported bytes differ from the ring in slot order.
C26_Witness ==
    /\ ofb # Idle
    /\ ofb.exported
    /\ Len(ofb.din) = ofb.n
    /\ ofb.orig.Z >= 3
    /\ ofb.orig.pos >= 1
    /\ ofb.n > ofb.orig.Z
    /\ ofb.fresh.state # ofb.orig.state

\* C27: CTR block position accounting.  get_block_pos right after
\* set_block_pos(p) returns p, and after n more blocks, through any mix of
\* encrypt_block_inout_mut, decrypt_block_inout_mut and
\* apply_keystream_blocks, it returns (p + n) mod 2^64 for Ctr128Core and
\* (p + n) mod 2^32 for Ctr64Core.
C27_CtrBlockPos ==
    (ctr # Idle /\ "core" \in DOMAIN ctr /\ ctr.setPos.some) =>
      LET w        == CtrLimbs(ctr.variant)
          expected == LimbSum(ctr.setPos.val, UInt(ctr.since, w)).sum
      IN  /\ Ctr_get_block_pos(ctr.variant, ctr.core) = expected
          /\ ctr.last.op = "get_block_pos" => ctr.last.ret = expected
          /\ ctr.since = 0 => Ctr_get_block_pos(ctr.variant, ctr.core) = ctr.setPos.val

\* get_block_pos on the 64-bit core after set_block_pos(2^32 - 2) and four
\* blocks through two kinds of call: the position has wrapped to 2.
C27_Witness ==
    /\ ctr # Idle /\ "core" \in DOMAIN ctr
    /\ ctr.variant = "Ctr64Core"
    /\ ctr.setPos = Some(UMaxMinus(1, 2))
    /\ ctr.since = 4
    /\ ctr.last.op = "get_block_pos"
    /\ ctr.last.ret = UInt(2, 2)

\* The counter block for counter value c (as limbs) of a core made from the
\* IV iv: the IV in the leading half, c in the trailing half with its most
\* significant byte first.
CtrCounterBlock(iv, c) ==
    LET h == Len(iv)
    IN  [i \in 1..(2 * h) |->
           IF i <= h THEN iv[i]
           ELSE LET m == i - h
                IN  IF m % 2 = 1 THEN c[(m + 1) \div 2] \div 256
                    ELSE c[m \div 2] % 256]

\* C28: CTR keystream block.  The block processed at counter value c is
\* xored with the first S bytes of E_K(nonce || c): the nonce, as given in
\* the IV, in the leading half of the cipher block (8 bytes for Ctr128Core,
\* 4 for Ctr64Core), c big-endian in the trailing half, c being the counter
\* before the increment of that block.
C28_CtrKeystreamBlock ==
    (ctr # Idle /\ "core" \in DOMAIN ctr /\ CtrLastProcessed) =>
      LET w    == CtrLimbs(ctr.variant)
          b    == ctr.last.before
          c(i) == LimbSum(b.ctr, UInt(i - 1, w)).sum
          ks(i) == CipherEncrypt(b.cipher, CtrCounterBlock(ctr.iv, c(i)))
      IN  /\ Len(ctr.last.out) = ctr.last.blocks
          /\ Len(ctr.iv) = CtrBlockBytes(ctr.variant) \div 2
          /\ \A i \in 1..ctr.last.blocks :
               ctr.last.out[i] =
                 [j \in 1..b.S |-> Xor8(ctr.last.data[i][j], ks(i)[j])]

\* A call over three blocks with an output width below the block size that
\* begins one below the largest counter value, so the three counter blocks
\* hold MAX - 1, MAX and 0.
C28_Witness ==
    /\ ctr # Idle /\ "core" \in DOMAIN ctr
    /\ ctr.last.op = "apply_keystream_blocks"
    /\ ctr.last.blocks = 3
    /\ ctr.last.before.S < CtrBlockBytes(ctr.variant)
    /\ ctr.last.before.ctr = UMaxMinus(1, CtrLimbs(ctr.variant))
    /\ ctr.core.ctr = UInt(1, CtrLimbs(ctr.variant))

\* The union arm the operations read for the present value of the token.
AesArmRead == IF InitToken_get(aes.storage) THEN "intrinsics" ELSE "soft"

\* C29: the live union arm matches the discriminator.  For every instance,
\* made by new or by clone, the arm that encrypt_block_inout,
\* decrypt_block_inout, the batched variants and clone read (the one the
\* token selects) is the arm that was written when the instance was built
\* and holds a cipher; so no operation has the outcome of reading an arm
\* that was not written.
C29_LiveArmMatchesToken ==
    (aes # Idle /\ "insts" \in DOMAIN aes) =>
      /\ \A i \in 1..Len(aes.insts) :
           /\ aes.insts[i].obj.arm = AesArmRead
           /\ ArmLive(aes.insts[i].obj, AesArmRead)
           /\ aes.insts[i].obj.inner.key = aes.insts[i].key
      /\ aes.last # Idle => aes.last.out.fault = "none"

\* A clone of an instance, used by a batched decryption, on a CPU with the
\* AES instructions.
C29_Witness ==
    /\ aes # Idle /\ "insts" \in DOMAIN aes
    /\ aes.cpu
    /\ Len(aes.insts) = 2
    /\ aes.insts[2].via = "clone"
    /\ aes.insts[2].obj.arm = "intrinsics"
    /\ aes.last # Idle
    /\ aes.last.op = "decrypt_blocks_with_pre"
    /\ aes.last.inst = 2

--------------------------------------------------------------------------
(* The in/out block reference of the block operations: one pointer that is
   read and one that is written, to the same block or to two blocks. *)

\* Calls made on one mode object with an in/out reference.
MaxInOutCalls == 2

\* InOut::get_in: the block behind the in pointer.
InOut_get_in(mem, block) == mem[block.in_ptr]

\* *block.get_out() = val: the block behind the out pointer is replaced.
InOut_set_out(mem, block, val) ==
    [a \in 1..Len(mem) |-> IF a = block.out_ptr THEN val ELSE mem[a]]

\* block.get_out() read back.
InOut_get_out(mem, block) == mem[block.out_ptr]

\* InOut::xor: the in block is read, xored with data, and the result is
\* written behind the out pointer.
InOut_xor(mem, block, data) ==
    InOut_set_out(mem, block, inout_xor(InOut_get_in(mem, block), data))

CbcEncrypt_encrypt_block_io(self, mem, block) ==
    LET sb   == self.state[self.pos + 1]
        b0   == InOut_get_in(mem, block)
        b    == CipherEncrypt(self.cipher, xor(b0, sb))
        mem1 == InOut_set_out(mem, block, b)
    IN  [mem  |-> mem1,
         self |-> [self EXCEPT !.state[self.pos + 1] = b,
                               !.pos = ((self.pos + 1) % 256) % self.Z]]

CbcDecrypt_decrypt_block_io(self, mem, block) ==
    LET pos  == self.pos
        b    == self.state[pos + 1]
        b2   == InOut_get_in(mem, block)
        st1  == [self EXCEPT !.state[pos + 1] = b2]
        b3   == xor(CipherDecrypt(self.cipher, b2), b)
        mem1 == InOut_set_out(mem, block, b3)
    IN  [mem  |-> mem1,
         self |-> [st1 EXCEPT !.pos = ((self.pos + 1) % 256) % self.Z]]

GostCfb_encrypt_block_io(self, mem, block) ==
    LET bs     == BlockBytes
        b      == CipherEncrypt(self.cipher, Slice(self.iv, 0, bs))
        mem1   == InOut_xor(mem, block, Slice(b, 0, self.S))
        n      == self.M - self.S
        out    == InOut_get_out(mem1, block)
        new_iv == [i \in 1..self.M |-> IF i <= n THEN self.iv[self.S + i]
                                        ELSE out[i - n]]
    IN  [mem |-> mem1, self |-> [self EXCEPT !.iv = new_iv]]

GostCfb_decrypt_block_io(self, mem, block) ==
    LET bs     == BlockBytes
        b      == CipherEncrypt(self.cipher, Slice(self.iv, 0, bs))
        n      == self.M - self.S
        inp    == InOut_get_in(mem, block)
        new_iv == [i \in 1..self.M |-> IF i <= n THEN self.iv[self.S + i]
                                        ELSE inp[i - n]]
        mem1   == InOut_xor(mem, block, Slice(b, 0, self.S))
    IN  [mem |-> mem1, self |-> [self EXCEPT !.iv = new_iv]]

Cfb_encrypt_block_io(self, mem, block) ==
    LET iv1  == CipherEncrypt(self.cipher, self.iv)
        iv2  == cfb_xor(iv1, InOut_get_in(mem, block))
        mem1 == InOut_set_out(mem, block, iv2)
    IN  [mem |-> mem1, self |-> [self EXCEPT !.iv = iv2]]

\* Mutant: the output block is written before the register takes the input
\* block.
Cfb_decrypt_block_io_writes_first(self, mem, block) ==
    LET t0   == CipherEncrypt(self.cipher, self.iv)
        t    == cfb_xor(t0, InOut_get_in(mem, block))
        mem1 == InOut_set_out(mem, block, t)
        iv1  == InOut_get_in(mem1, block)
    IN  [mem |-> mem1, self |-> [self EXCEPT !.iv = iv1]]

Cfb_decrypt_block_io(self, mem, block) ==
    LET t0   == CipherEncrypt(self.cipher, self.iv)
        t    == cfb_xor(t0, InOut_get_in(mem, block))
        iv1  == InOut_get_in(mem, block)
        mem1 == InOut_set_out(mem, block, t)
    IN  [mem |-> mem1, self |-> [self EXCEPT !.iv = iv1]]

OfbCore_encrypt_block_io(self, mem, block) ==
    LET state_block == CipherEncrypt(self.cipher, self.state[self.pos + 1])
        mem1        == InOut_xor(mem, block, Slice(state_block, 0, self.S))
    IN  [mem  |-> mem1,
         self |-> [self EXCEPT !.state[self.pos + 1] = state_block,
                               !.pos = (self.pos + 1) % self.Z]]

OfbCore_decrypt_block_io(self, mem, block) ==
    LET state_block == CipherEncrypt(self.cipher, self.state[self.pos + 1])
        mem1        == InOut_xor(mem, block, Slice(state_block, 0, self.S))
    IN  [mem  |-> mem1,
         self |-> [self EXCEPT !.state[self.pos + 1] = state_block,
                               !.pos = (self.pos + 1) % self.Z]]

\* xor_block of Ctr64Core and Ctr128Core: the two differ in the width of
\* the nonce and of the counter only.
CtrCore_xor_block_io(self, mem, block) ==
    LET nb   == to_be_bytes(self.nonce)
        cb   == to_be_bytes(self.ctr)
        h    == Len(self.nonce) * 2
        b0   == [i \in 1..(2 * h) |-> IF i <= h THEN nb[i] ELSE cb[i - h]]
        b    == CipherEncrypt(self.cipher, b0)
        mem1 == InOut_xor(mem, block, Slice(b, 0, self.S))
    IN  [mem  |-> mem1,
         self |-> [self EXCEPT !.ctr = wrapping_add_one(self.ctr)]]

\* The mode types whose block operations take an in/out reference.
InOutTypes == {"CbcEncrypt", "CbcDecrypt", "GostCfb", "Cfb", "OfbCore",
               "Ctr64Core", "Ctr128Core"}

\* Seeds of the stale content of the out block when it is a block of its own.
InOutStale == {2, 7}

\* A mode object before its first call.
InOutNew(type, obj) ==
    [type |-> type, obj |-> obj, calls |-> 0,
     last |-> [op |-> "inner_iv_init", before |-> obj, src |-> <<>>,
               shared |-> [mem |-> <<>>, self |-> obj],
               apart  |-> [mem |-> <<>>, self |-> obj]]]

\* One object of one mode type; the other components are idle.
InOutInit ==
    /\ \E type \in InOutTypes, k \in Keys, s \in IvSeeds :
        \E Z \in 1..2, M \in {BlockBytes, BlockBytes + 1}, S \in {1, BlockBytes} :
         /\ cbc = IF type = "CbcEncrypt"
                  THEN InOutNew(type, CbcEncrypt_inner_iv_init(k, Z, MkIv(s, Z, BlockBytes)))
                  ELSE IF type = "CbcDecrypt"
                  THEN InOutNew(type, CbcDecrypt_inner_iv_init(k, Z, MkIv(s, Z, BlockBytes)))
                  ELSE Idle
         /\ gcfb = IF type = "GostCfb"
                   THEN InOutNew(type, GostCfb_inner_iv_init(k, M, S, MkBytes(s, M)))
                   ELSE Idle
         /\ cfb = IF type = "Cfb"
                  THEN InOutNew(type, Cfb_inner_iv_init(k, MkBytes(s, BlockBytes)))
                  ELSE Idle
         /\ ofb = IF type = "OfbCore"
                  THEN InOutNew(type, OfbCore_inner_iv_init(k, Z, S, MkIv(s, Z, BlockBytes)))
                  ELSE Idle
         /\ ctr = IF type \in CtrVariants
                  THEN InOutNew(type, Ctr_inner_iv_init(type, k,
                                        IF S = 1 THEN 3 ELSE CtrBlockBytes(type),
                                        MkBytes(s, CtrIvBytes(type))))
                  ELSE Idle
    /\ aes = Idle /\ tdes = Idle

\* The component x holds an object that takes calls with in/out references.
InOutLive(x) == x # Idle /\ "shared" \in DOMAIN x.last

\* The two layouts a call is made with: the in and the out pointer on the
\* one block src, and the out pointer on a second block holding stale bytes.
InOutShared(src) == [mem |-> <<src>>, block |-> [in_ptr |-> 1, out_ptr |-> 1]]
InOutApart(src, stale) ==
    [mem |-> <<src, stale>>, block |-> [in_ptr |-> 1, out_ptr |-> 2]]

\* One call on the object of x, made from the same object with each layout;
\* the object goes on from the call on the one block.
InOutCall(x, op, src, shared, apart) ==
    [x EXCEPT !.obj = shared.self, !.calls = @ + 1,
              !.last = [op |-> op, before |-> x.obj, src |-> src,
                        shared |-> shared, apart |-> apart]]

InOutCbcEncrypt ==
    /\ InOutLive(cbc) /\ cbc.type = "CbcEncrypt" /\ cbc.calls < MaxInOutCalls
    /\ \E s \in DataSeeds, j \in InOutStale :
         LET src == MkBytes(s, BlockBytes)
             a   == InOutShared(src)
             b   == InOutApart(src, MkBytes(j, BlockBytes))
         IN  cbc' = InOutCall(cbc, "encrypt_block_inout_mut", src,
                          CbcEncrypt_encrypt_block_io(cbc.obj, a.mem, a.block),
                          CbcEncrypt_encrypt_block_io(cbc.obj, b.mem, b.block))
    /\ UNCHANGED <<gcfb, cfb, ctr, ofb, aes, tdes>>

InOutCbcDecrypt ==
    /\ InOutLive(cbc) /\ cbc.type = "CbcDecrypt" /\ cbc.calls < MaxInOutCalls
    /\ \E s \in DataSeeds, j \in InOutStale :
         LET src == MkBytes(s, BlockBytes)
             a   == InOutShared(src)
             b   == InOutApart(src, MkBytes(j, BlockBytes))
         IN  cbc' = InOutCall(cbc, "decrypt_block_inout_mut", src,
                          CbcDecrypt_decrypt_block_io(cbc.obj, a.mem, a.block),
                          CbcDecrypt_decrypt_block_io(cbc.obj, b.mem, b.block))
    /\ UNCHANGED <<gcfb, cfb, ctr, ofb, aes, tdes>>

InOutGostCfbEncrypt ==
    /\ InOutLive(gcfb) /\ gcfb.calls < MaxInOutCalls
    /\ \E s \in DataSeeds, j \in InOutStale :
         LET src == MkBytes(s, gcfb.obj.S)
             a   == InOutShared(src)
             b   == InOutApart(src, MkBytes(j, gcfb.obj.S))
         IN  gcfb' = InOutCall(gcfb, "encrypt_block_inout_mut", src,
                          GostCfb_encrypt_block_io(gcfb.obj, a.mem, a.block),
                          GostCfb_encrypt_block_io(gcfb.obj, b.mem, b.block))
    /\ UNCHANGED <<cbc, cfb, ctr, ofb, aes, tdes>>

InOutGostCfbDecrypt ==
    /\ InOutLive(gcfb) /\ gcfb.calls < MaxInOutCalls
    /\ \E s \in DataSeeds, j \in InOutStale :
         LET src == MkBytes(s, gcfb.obj.S)
             a   == InOutShared(src)
             b   == InOutApart(src, MkBytes(j, gcfb.obj.S))
         IN  gcfb' = InOutCall(gcfb, "decrypt_block_inout_mut", src,
                          GostCfb_decrypt_block_io(gcfb.obj, a.mem, a.block),
                          GostCfb_decrypt_block_io(gcfb.obj, b.mem, b.block))
    /\ UNCHANGED <<cbc, cfb, ctr, ofb, aes, tdes>>

InOutCfbEncrypt ==
    /\ InOutLive(cfb) /\ cfb.calls < MaxInOutCalls
    /\ \E s \in DataSeeds, j \in InOutStale :
         LET src == MkBytes(s, BlockBytes)
             a   == InOutShared(src)
             b   == InOutApart(src, MkBytes(j, BlockBytes))
         IN  cfb' = InOutCall(cfb, "encrypt_block_inout_mut", src,
                          Cfb_encrypt_block_io(cfb.obj, a.mem, a.block),
                          Cfb_encrypt_block_io(cfb.obj, b.mem, b.block))
    /\ UNCHANGED <<cbc, gcfb, ctr, ofb, aes, tdes>>

InOutCfbDecrypt ==
    /\ InOutLive(cfb) /\ cfb.calls < MaxInOutCalls
    /\ \E s \in DataSeeds, j \in InOutStale :
         LET src == MkBytes(s, BlockBytes)
             a   == InOutShared(src)
             b   == InOutApart(src, MkBytes(j, BlockBytes))
         IN  cfb' = InOutCall(cfb, "decrypt_block_inout_mut", src,
                          Cfb_decrypt_block_io(cfb.obj, a.mem, a.block),
                          Cfb_decrypt_block_io(cfb.obj, b.mem, b.block))
    /\ UNCHANGED <<cbc, gcfb, ctr, ofb, aes, tdes>>

InOutOfbEncrypt ==
    /\ InOutLive(ofb) /\ ofb.calls < MaxInOutCalls
    /\ \E s \in DataSeeds, j \in InOutStale :
         LET src == MkBytes(s, ofb.obj.S)
             a   == InOutShared(src)
             b   == InOutApart(src, MkBytes(j, ofb.obj.S))
         IN  ofb' = InOutCall(ofb, "encrypt_block_inout_mut", src,
                          OfbCore_encrypt_block_io(ofb.obj, a.mem, a.block),
                          OfbCore_encrypt_block_io(ofb.obj, b.mem, b.block))
    /\ UNCHANGED <<cbc, gcfb, cfb, ctr, aes, tdes>>

InOutOfbDecrypt ==
    /\ InOutLive(ofb) /\ ofb.calls < MaxInOutCalls
    /\ \E s \in DataSeeds, j \in InOutStale :
         LET src == MkBytes(s, ofb.obj.S)
             a   == InOutShared(src)
             b   == InOutApart(src, MkBytes(j, ofb.obj.S))
         IN  ofb' = InOutCall(ofb, "decrypt_block_inout_mut", src,
                          OfbCore_decrypt_block_io(ofb.obj, a.mem, a.block),
                          OfbCore_decrypt_block_io(ofb.obj, b.mem, b.block))
    /\ UNCHANGED <<cbc, gcfb, cfb, ctr, aes, tdes>>

\* encrypt_block_inout_mut and decrypt_block_inout_mut of the CTR cores both
\* hand the reference to xor_block.
InOutCtrXorBlock ==
    /\ InOutLive(ctr) /\ ctr.calls < MaxInOutCalls
    /\ \E op \in {"encrypt_block_inout_mut", "decrypt_block_inout_mut"} :
        \E s \in DataSeeds, j \in InOutStale :
         LET src == MkBytes(s, ctr.obj.S)
             a   == InOutShared(src)
             b   == InOutApart(src, MkBytes(j, ctr.obj.S))
         IN  ctr' = InOutCall(ctr, op, src,
                          CtrCore_xor_block_io(ctr.obj, a.mem, a.block),
                          CtrCore_xor_block_io(ctr.obj, b.mem, b.block))
    /\ UNCHANGED <<cbc, gcfb, cfb, ofb, aes, tdes>>

InOutNext ==
    \/ InOutCbcEncrypt \/ InOutCbcDecrypt
    \/ InOutGostCfbEncrypt \/ InOutGostCfbDecrypt
    \/ InOutCfbEncrypt \/ InOutCfbDecrypt
    \/ InOutOfbEncrypt \/ InOutOfbDecrypt
    \/ InOutCtrXorBlock

SpecInOut == InOutInit /\ [][InOutNext]_vars

\* The last call on x left the same output bytes and the same object with
\* one block as with two, and with two blocks it left the in block alone.
InOutSame(x) ==
    (InOutLive(x) /\ x.calls > 0) =>
      /\ x.last.shared.self = x.last.apart.self
      /\ x.last.shared.mem[1] = x.last.apart.mem[2]
      /\ x.last.apart.mem[1] = x.last.src

\* C30: in-place equals out-of-place.  Each block operation of GOST CBC,
\* GOST CFB, standard CFB, OFB and CTR, run with the in and the out pointer
\* on the same block, leaves the output bytes and the mode object it leaves
\* when run with the out pointer on a block of its own; after a CFB or a CBC
\* decryption the feedback state holds the ciphertext block that was given,
\* not the plaintext written over it.
C30_InPlaceEqualsOutOfPlace ==
    /\ InOutSame(cbc) /\ InOutSame(gcfb) /\ InOutSame(cfb)
    /\ InOutSame(ofb) /\ InOutSame(ctr)
    /\ (InOutLive(cbc) /\ cbc.last.op = "decrypt_block_inout_mut") =>
         cbc.last.shared.self.state[cbc.last.before.pos + 1] = cbc.last.src
    /\ (InOutLive(gcfb) /\ gcfb.last.op = "decrypt_block_inout_mut") =>
         Slice(gcfb.last.shared.self.iv, gcfb.obj.M - gcfb.obj.S, gcfb.obj.M)
           = gcfb.last.src
    /\ (InOutLive(cfb) /\ cfb.last.op = "decrypt_block_inout_mut") =>
         cfb.last.shared.self.iv = cfb.last.src

\* A standard CFB decryption on one block whose plaintext differs from the
\* ciphertext given, after an earlier call on the same object.
C30_Witness ==
    /\ InOutLive(cfb)
    /\ cfb.calls = 2
    /\ cfb.last.op = "decrypt_block_inout_mut"
    /\ cfb.last.shared.mem[1] # cfb.last.src
    /\ cfb.last.apart.mem[2] = cfb.last.shared.mem[1]
    /\ cfb.obj.iv = cfb.last.src

--------------------------------------------------------------------------
(* Two OFB cores, or two CTR cores, made from the same key and IV and given
   different data. *)

\* Seeds of the data blocks of the two runs.
KsSeeds == {0, 1}

\* Two cores a and b from one key and IV; da and db are the blocks given to
\* them, oa and ob the blocks they emitted.
KsPair(kind, core) ==
    [kind |-> kind, a |-> core, b |-> core, da |-> <<>>, db |-> <<>>, oa |-> <<>>, ob |-> <<>>]

KsInit ==
    /\ \E kind \in {"OfbCore"} \cup CtrVariants :
        \E Z \in 1..MaxZ, S \in OfbWidths, ks \in OfbSetups :
         /\ ofb = IF kind = "OfbCore"
                  THEN KsPair(kind, OfbCore_inner_iv_init(ks[1], Z, S,
                                                    MkIv(ks[2], Z, BlockBytes)))
                  ELSE Idle
         /\ ctr = IF kind \in CtrVariants
                  THEN KsPair(kind, Ctr_inner_iv_init(kind, ks[1],
                                        IF S = 1 THEN 3 ELSE CtrBlockBytes(kind),
                                        MkBytes(ks[2], CtrIvBytes(kind))))
                  ELSE Idle
    /\ cbc = Idle /\ gcfb = Idle /\ cfb = Idle
    /\ aes = Idle /\ tdes = Idle

\* The component x holds a pair of cores.
KsLive(x) == x # Idle /\ "db" \in DOMAIN x

\* The pair after the two cores went to ra.self and rb.self on the blocks pa
\* and pb.
KsAfter(x, pa, pb, ra, rb) ==
    [x EXCEPT !.a = ra.self, !.b = rb.self,
              !.da = [i \in 1..(Len(x.da) + Len(pa)) |->
                        IF i <= Len(x.da) THEN x.da[i] ELSE pa[i - Len(x.da)]],
              !.db = [i \in 1..(Len(x.db) + Len(pb)) |->
                        IF i <= Len(x.db) THEN x.db[i] ELSE pb[i - Len(x.db)]],
              !.oa = [i \in 1..(Len(x.oa) + Len(pa)) |->
                        IF i <= Len(x.oa) THEN x.oa[i] ELSE ra.out[i - Len(x.oa)]],
              !.ob = [i \in 1..(Len(x.ob) + Len(pb)) |->
                        IF i <= Len(x.ob) THEN x.ob[i] ELSE rb.out[i - Len(x.ob)]]]

\* One block each through encrypt_block_inout_mut or decrypt_block_inout_mut.
KsOfbBlock ==
    /\ KsLive(ofb) /\ Len(ofb.da) < MaxBlocks
    /\ \E op \in {"encrypt_block_inout_mut", "decrypt_block_inout_mut"} :
        \E sa \in KsSeeds, sb \in KsSeeds :
         LET pa == MkBytes(sa, ofb.a.S)
             pb == MkBytes(sb, ofb.b.S)
             ra == OfbProcess(op, ofb.a, pa)
             rb == OfbProcess(op, ofb.b, pb)
         IN  ofb' = KsAfter(ofb, <<pa>>, <<pb>>,
                            [out |-> <<ra.out>>, self |-> ra.self],
                            [out |-> <<rb.out>>, self |-> rb.self])
    /\ UNCHANGED <<cbc, gcfb, cfb, ctr, aes, tdes>>

\* One or two blocks each through apply_keystream_blocks.
KsOfbApply ==
    /\ KsLive(ofb)
    /\ \E n \in 1..2 :
        /\ Len(ofb.da) + n <= MaxBlocks
        /\ \E sa \in KsSeeds, sb \in KsSeeds :
            LET pa == [i \in 1..n |-> MkBytes(sa + i - 1, ofb.a.S)]
                pb == [i \in 1..n |-> MkBytes(sb + i - 1, ofb.b.S)]
            IN  ofb' = KsAfter(ofb, pa, pb,
                               OfbCore_apply_keystream_blocks(ofb.a, pa),
                               OfbCore_apply_keystream_blocks(ofb.b, pb))
    /\ UNCHANGED <<cbc, gcfb, cfb, ctr, aes, tdes>>

\* One block each through encrypt_block_inout_mut, that is xor_block.
KsCtrBlock ==
    /\ KsLive(ctr) /\ Len(ctr.da) < MaxBlocks
    /\ \E sa \in KsSeeds, sb \in KsSeeds :
         LET pa == MkBytes(sa, ctr.a.S)
             pb == MkBytes(sb, ctr.b.S)
             ra == Ctr_encrypt_block_inout_mut(ctr.kind, ctr.a, pa)
             rb == Ctr_encrypt_block_inout_mut(ctr.kind, ctr.b, pb)
         IN  ctr' = KsAfter(ctr, <<pa>>, <<pb>>,
                            [out |-> <<ra.out>>, self |-> ra.self],
                            [out |-> <<rb.out>>, self |-> rb.self])
    /\ UNCHANGED <<cbc, gcfb, cfb, ofb, aes, tdes>>

\* One or two blocks each through apply_keystream_blocks.
KsCtrApply ==
    /\ KsLive(ctr)
    /\ \E n \in 1..2 :
        /\ Len(ctr.da) + n <= MaxBlocks
        /\ \E sa \in KsSeeds, sb \in KsSeeds :
            LET pa == [i \in 1..n |-> MkBytes(sa + i - 1, ctr.a.S)]
                pb == [i \in 1..n |-> MkBytes(sb + i - 1, ctr.b.S)]
            IN  ctr' = KsAfter(ctr, pa, pb,
                               Ctr_apply_keystream_blocks(ctr.kind, ctr.a, pa),
                               Ctr_apply_keystream_blocks(ctr.kind, ctr.b, pb))
    /\ UNCHANGED <<cbc, gcfb, cfb, ofb, aes, tdes>>

KsNext == KsOfbBlock \/ KsOfbApply \/ KsCtrBlock \/ KsCtrApply

SpecKs == KsInit /\ [][KsNext]_vars

\* The two cores of x are in the same state and, block by block, the xor of
\* what a core was given and what it emitted is the same in both runs.
KsSame(x) ==
    KsLive(x) =>
      /\ x.a = x.b
      /\ Len(x.oa) = Len(x.da) /\ Len(x.ob) = Len(x.db) /\ Len(x.da) = Len(x.db)
      /\ \A i \in 1..Len(x.da) :
           inout_xor(x.da[i], x.oa[i]) = inout_xor(x.db[i], x.ob[i])

\* C31: the keystream of OFB and of CTR does not depend on the data.  Two
\* OfbCore instances, or two CTR cores, made from the same key and IV and
\* given different blocks hold the same state (ring and pos, or nonce and
\* counter) after every block, and input xor output is the same in both runs.
C31_KeystreamIndependentOfData ==
    KsSame(ofb) /\ KsSame(ctr)

\* Two OFB cores with a ring of two slots after three blocks that differed
\* in every position, so that a slot was used twice.
C31_Witness ==
    /\ KsLive(ofb)
    /\ ofb.a.Z = 2
    /\ Len(ofb.da) = 3
    /\ \A i \in 1..3 : ofb.da[i] # ofb.db[i] /\ ofb.oa[i] # ofb.ob[i]

--------------------------------------------------------------------------
(* Two CFB decryptors made from the same key and different IVs and given the
   same ciphertext. *)

\* Two decryptors a and b; ct is the ciphertext given to both, oa and ob
\* what they emitted.
SyncPair(a, b) == [a |-> a, b |-> b, ct |-> <<>>, oa |-> <<>>, ob |-> <<>>]

SyncInit ==
    /\ \E kind \in {"GostCfb", "Cfb"}, k \in Keys :
        \E M \in GostCfbM, S \in 1..BlockBytes :
         \E s1 \in IvSeeds, s2 \in IvSeeds :
          /\ s1 # s2
          /\ gcfb = IF kind = "GostCfb"
                    THEN SyncPair(GostCfb_inner_iv_init(k, M, S, MkBytes(s1, M)),
                                  GostCfb_inner_iv_init(k, M, S, MkBytes(s2, M)))
                    ELSE Idle
          /\ cfb = IF kind = "Cfb"
                   THEN SyncPair(Cfb_inner_iv_init(k, MkBytes(s1, BlockBytes)),
                                 Cfb_inner_iv_init(k, MkBytes(s2, BlockBytes)))
                   ELSE Idle
    /\ cbc = Idle /\ ctr = Idle /\ ofb = Idle
    /\ aes = Idle /\ tdes = Idle

\* The component x holds a pair of decryptors.
SyncLive(x) == x # Idle /\ "ob" \in DOMAIN x

SyncGostCfbDecrypt ==
    /\ SyncLive(gcfb) /\ Len(gcfb.ct) < MaxBlocks
    /\ \E s \in DataSeeds :
         LET c  == MkBytes(s, gcfb.a.S)
             ra == GostCfb_decrypt_block_inout_mut(gcfb.a, c)
             rb == GostCfb_decrypt_block_inout_mut(gcfb.b, c)
         IN  gcfb' = [gcfb EXCEPT !.a = ra.self, !.b = rb.self,
                                  !.ct = Append(@, c),
                                  !.oa = Append(@, ra.out),
                                  !.ob = Append(@, rb.out)]
    /\ UNCHANGED <<cbc, cfb, ctr, ofb, aes, tdes>>

SyncCfbDecrypt ==
    /\ SyncLive(cfb) /\ Len(cfb.ct) < MaxBlocks
    /\ \E s \in DataSeeds :
         LET c  == MkBytes(s, BlockBytes)
             ra == Cfb_decrypt_block_inout_mut(cfb.a, c)
             rb == Cfb_decrypt_block_inout_mut(cfb.b, c)
         IN  cfb' = [cfb EXCEPT !.a = ra.self, !.b = rb.self,
                                !.ct = Append(@, c),
                                !.oa = Append(@, ra.out),
                                !.ob = Append(@, rb.out)]
    /\ UNCHANGED <<cbc, gcfb, ctr, ofb, aes, tdes>>

SyncNext == SyncGostCfbDecrypt \/ SyncCfbDecrypt

SpecSync == SyncInit /\ [][SyncNext]_vars

\* ceil(M / S)
SyncChunks(M, S) == (M + S - 1) \div S

\* C32: CFB decryption synchronises itself.  Two GOST Cfb decryptors with
\* the same key and different IVs that are given the same ciphertext chunks
\* hold the same register once ceil(M / S) chunks are in, and emit the same
\* output for every chunk after those; two standard CFB decryptors hold
\* the same register after one block.
C32_CfbSelfSynchronises ==
    /\ SyncLive(gcfb) =>
         LET k == SyncChunks(gcfb.a.M, gcfb.a.S)
         IN  /\ Len(gcfb.ct) >= k => gcfb.a.iv = gcfb.b.iv
             /\ \A i \in 1..Len(gcfb.ct) : i > k => gcfb.oa[i] = gcfb.ob[i]
    /\ SyncLive(cfb) =>
         /\ Len(cfb.ct) >= 1 => cfb.a.iv = cfb.b.iv
         /\ \A i \in 1..Len(cfb.ct) : i > 1 => cfb.oa[i] = cfb.ob[i]

\* Two GOST decryptors whose register is not a whole number of chunks, one
\* chunk after the registers came to agree; their first outputs differed.
C32_Witness ==
    /\ SyncLive(gcfb)
    /\ gcfb.a.M = BlockBytes + 1 /\ gcfb.a.S = 2
    /\ Len(gcfb.ct) = SyncChunks(gcfb.a.M, gcfb.a.S) + 1
    /\ gcfb.oa[1] # gcfb.ob[1]
    /\ gcfb.oa[Len(gcfb.ct)] = gcfb.ob[Len(gcfb.ct)]
    /\ gcfb.a.iv = gcfb.b.iv

--------------------------------------------------------------------------
(* CFB pause and resume: an object processes chunks, its iv_state is taken
   and a second object is made from it with the same cipher; from then on
   both are given the same chunks. *)

\* The block operations of a CFB object.
CfbOps == {"encrypt_block_inout_mut", "decrypt_block_inout_mut"}

GostCfbProcess(op, self, blockIn) ==
    IF op = "encrypt_block_inout_mut" THEN GostCfb_encrypt_block_inout_mut(self, blockIn)
    ELSE GostCfb_decrypt_block_inout_mut(self, blockIn)

CfbProcess(op, self, blockIn) ==
    IF op = "encrypt_block_inout_mut" THEN Cfb_encrypt_block_inout_mut(self, blockIn)
    ELSE Cfb_decrypt_block_inout_mut(self, blockIn)

\* orig is the object, fresh the one made from its iv_state, snap the object
\* as it was when iv_state was called, n the chunks processed before that,
\* oo and fo what orig and fresh emitted afterwards.
ResumeStart(obj) ==
    [orig |-> obj, fresh |-> Idle, snap |-> Idle, exported |-> FALSE,
     n |-> 0, m |-> 0, oo |-> <<>>, fo |-> <<>>]

ResumeInit ==
    /\ \E kind \in {"GostCfb", "Cfb"}, k \in Keys, s \in IvSeeds :
        \E M \in GostCfbM, S \in 1..BlockBytes :
          /\ gcfb = IF kind = "GostCfb"
                    THEN ResumeStart(GostCfb_inner_iv_init(k, M, S, MkBytes(s, M)))
                    ELSE Idle
          /\ cfb = IF kind = "Cfb"
                   THEN ResumeStart(Cfb_inner_iv_init(k, MkBytes(s, BlockBytes)))
                   ELSE Idle
    /\ cbc = Idle /\ ctr = Idle /\ ofb = Idle
    /\ aes = Idle /\ tdes = Idle

\* The component x holds an object that may be paused and resumed.
ResumeLive(x) == x # Idle /\ "snap" \in DOMAIN x

ResumeGostCfbProcess ==
    /\ ResumeLive(gcfb) /\ ~gcfb.exported /\ gcfb.n < MaxBlocks
    /\ \E op \in CfbOps, s \in KsSeeds :
         LET r == GostCfbProcess(op, gcfb.orig, MkBytes(s, gcfb.orig.S))
         IN  gcfb' = [gcfb EXCEPT !.orig = r.self, !.n = @ + 1]
    /\ UNCHANGED <<cbc, cfb, ctr, ofb, aes, tdes>>

\* iv_state takes &self; inner_iv_init is given the cipher and the value.
ResumeGostCfbExport ==
    /\ ResumeLive(gcfb) /\ ~gcfb.exported
    /\ LET iv == GostCfb_iv_state(gcfb.orig)
       IN  gcfb' = [gcfb EXCEPT !.snap = gcfb.orig,
                                !.fresh = GostCfb_inner_iv_init(gcfb.orig.cipher,
                                            gcfb.orig.M, gcfb.orig.S, iv),
                                !.exported = TRUE]
    /\ UNCHANGED <<cbc, cfb, ctr, ofb, aes, tdes>>

ResumeGostCfbContinue ==
    /\ ResumeLive(gcfb) /\ gcfb.exported /\ gcfb.n + gcfb.m < MaxBlocks
    /\ \E op \in CfbOps, s \in KsSeeds :
         LET p  == MkBytes(s, gcfb.orig.S)
             ro == GostCfbProcess(op, gcfb.orig, p)
             rf == GostCfbProcess(op, gcfb.fresh, p)
         IN  gcfb' = [gcfb EXCEPT !.orig = ro.self, !.fresh = rf.self,
                                  !.m = @ + 1,
                                  !.oo = Append(@, ro.out),
                                  !.fo = Append(@, rf.out)]
    /\ UNCHANGED <<cbc, cfb, ctr, ofb, aes, tdes>>

ResumeCfbProcess ==
    /\ ResumeLive(cfb) /\ ~cfb.exported /\ cfb.n < MaxBlocks
    /\ \E op \in CfbOps, s \in KsSeeds :
         LET r == CfbProcess(op, cfb.orig, MkBytes(s, BlockBytes))
         IN  cfb' = [cfb EXCEPT !.orig = r.self, !.n = @ + 1]
    /\ UNCHANGED <<cbc, gcfb, ctr, ofb, aes, tdes>>

ResumeCfbExport ==
    /\ ResumeLive(cfb) /\ ~cfb.exported
    /\ LET iv == Cfb_iv_state(cfb.orig)
       IN  cfb' = [cfb EXCEPT !.snap = cfb.orig,
                              !.fresh = Cfb_inner_iv_init(cfb.orig.cipher, iv),
                              !.exported = TRUE]
    /\ UNCHANGED <<cbc, gcfb, ctr, ofb, aes, tdes>>

ResumeCfbContinue ==
    /\ ResumeLive(cfb) /\ cfb.exported /\ cfb.n + cfb.m < MaxBlocks
    /\ \E op \in CfbOps, s \in KsSeeds :
         LET p  == MkBytes(s, BlockBytes)
             ro == CfbProcess(op, cfb.orig, p)
             rf == CfbProcess(op, cfb.fresh, p)
         IN  cfb' = [cfb EXCEPT !.orig = ro.self, !.fresh = rf.self,
                                !.m = @ + 1,
                                !.oo = Append(@, ro.out),
                                !.fo = Append(@, rf.out)]
    /\ UNCHANGED <<cbc, gcfb, ctr, ofb, aes, tdes>>

ResumeNext ==
    \/ ResumeGostCfbProcess \/ ResumeGostCfbExport \/ ResumeGostCfbContinue
    \/ ResumeCfbProcess \/ ResumeCfbExport \/ ResumeCfbContinue

SpecResume == ResumeInit /\ [][ResumeNext]_vars

\* After the export the two objects of x are equal and have emitted the same
\* chunks, and until the next chunk orig is what it was before iv_state.
ResumeSame(x) ==
    (ResumeLive(x) /\ x.exported) =>
      /\ x.fresh = x.orig
      /\ x.fo = x.oo
      /\ x.m = 0 => x.orig = x.snap

\* C33: CFB pause and resume.  For the CFB of cfb-mode and the Cfb of
\* gost-modes, after any number of encrypted or decrypted chunks an object
\* made from the same cipher and the value of iv_state() processes every
\* further chunk as the original does, and iv_state leaves the original as
\* it was.
C33_CfbPauseResume ==
    ResumeSame(gcfb) /\ ResumeSame(cfb)

\* A GOST Cfb whose register is longer than a cipher block, paused after two
\* chunks that changed it and resumed for two more.
C33_Witness ==
    /\ ResumeLive(gcfb) /\ gcfb.exported
    /\ gcfb.orig.M > BlockBytes
    /\ gcfb.n = 2 /\ gcfb.m = 2
    /\ gcfb.snap.iv # gcfb.orig.iv
    /\ gcfb.fo[1] # gcfb.fo[2]

--------------------------------------------------------------------------
(* Triple DES under a key whose 8-byte parts are all the same, beside single
   DES under that part. *)

\* Every 8-byte part of the key is the first part.
TdesEqualParts(key) == \A i \in 1..Len(key) : key[i] = key[((i - 1) % 8) + 1]

\* Single DES under the first 8-byte part of the key, on a block of bytes.
TdesSingleDes(key, op, block) ==
    LET des == TdesKeyPart(key, 1)
    IN  to_be_bytes(IF op = "encrypt" THEN Des_encrypt(des, from_be_bytes(block))
                    ELSE Des_decrypt(des, from_be_bytes(block)))

\* C34: Triple-DES EDE with equal key parts is single DES.  TdesEde3 with
\* k1 = k2 = k3 = k and TdesEde2 with k1 = k2 = k encrypt and decrypt every
\* block as single DES under k does (DES decryption inverting DES encryption
\* under one key); for each EEE variant there are a key of equal parts and a
\* block on which it differs from single DES.
C34_TdesEdeDegenerates ==
    /\ (tdes # Idle /\ tdes.variant \in {"TdesEde3", "TdesEde2"}
          /\ TdesEqualParts(tdes.key)) =>
         \A i \in 1..Len(tdes.ops) :
           tdes.blocks[i + 1] = TdesSingleDes(tdes.key, tdes.ops[i], tdes.blocks[i])
    /\ \A v \in {"TdesEee3", "TdesEee2"} :
         \E key \in TdesKeys(v), s \in DataSeeds :
           /\ TdesEqualParts(key)
           /\ Tdes_encrypt_block_inout(v, Tdes_new(v, key), MkBytes(s + 1, 8))
                # TdesSingleDes(key, "encrypt", MkBytes(s + 1, 8))
           /\ Tdes_decrypt_block_inout(v, Tdes_new(v, key), MkBytes(s + 1, 8))
                # TdesSingleDes(key, "decrypt", MkBytes(s + 1, 8))

\* A TdesEde3 under a key of three equal parts that encrypted a block twice
\* and decrypted the result once, every step changing the block.
C34_Witness ==
    /\ tdes # Idle
    /\ tdes.variant = "TdesEde3"
    /\ TdesEqualParts(tdes.key)
    /\ tdes.ops = <<"encrypt", "encrypt", "decrypt">>
    /\ tdes.blocks[2] # tdes.blocks[1]
    /\ tdes.blocks[3] # tdes.blocks[2]
    /\ tdes.blocks[4] = tdes.blocks[2]

--------------------------------------------------------------------------
(* Debug of the cipher types: des/src/tdes.rs, aes/src/autodetect.rs *)

\* Calls of fmt made on one instance.
MaxFmtCalls == 2

\* Formatter::write_str: the text is appended to what the formatter holds.
Formatter_write_str(f, text) == f \o text

TdesEde3_fmt(self, f) == Formatter_write_str(f, "TdesEee3 { ... }")

TdesEee3_fmt(self, f) == Formatter_write_str(f, "TdesEee3 { ... }")

TdesEde2_fmt(self, f) == Formatter_write_str(f, "TdesEde2 { ... }")

TdesEee2_fmt(self, f) == Formatter_write_str(f, "TdesEee2 { ... }")

Tdes_fmt(v, self, f) ==
    IF v = "TdesEde3" THEN TdesEde3_fmt(self, f)
    ELSE IF v = "TdesEee3" THEN TdesEee3_fmt(self, f)
    ELSE IF v = "TdesEde2" THEN TdesEde2_fmt(self, f)
    ELSE TdesEee2_fmt(self, f)

\* concat!(stringify!($name), " { .. }")
Aes_fmt(self, f) == Formatter_write_str(f, self.name \o " { .. }")

\* What a formatter holds before the first call.
FmtStarts == {"", "cipher: "}

\* Seeds of the AES keys of the instances formatted.
FmtKeySeeds == {1, 7}

\* An instance of one cipher type and a formatter f; before is what the
\* formatter held when fmt was last called.
DebugInit ==
    /\ \/ \E t \in TdesVariants, f \in FmtStarts :
           \E key \in TdesKeys(t) :
             /\ tdes = [type |-> t, key |-> key, obj |-> Tdes_new(t, key),
                        f |-> f, before |-> f, calls |-> 0]
             /\ aes = Idle
       \/ \E t \in AesNames, f \in FmtStarts, c \in BOOLEAN, s \in FmtKeySeeds :
             LET key == MkBytes(s, AesKeySize(t))
             IN  /\ aes = [type |-> t, key |-> key,
                           obj |-> Aes_new(255, c, t, key).inst,
                           f |-> f, before |-> f, calls |-> 0]
                 /\ tdes = Idle
    /\ cbc = Idle /\ gcfb = Idle /\ cfb = Idle /\ ctr = Idle /\ ofb = Idle

\* The component x holds an instance and a formatter.
DebugLive(x) == x # Idle /\ "before" \in DOMAIN x

DebugTdesFmt ==
    /\ DebugLive(tdes) /\ tdes.calls < MaxFmtCalls
    /\ tdes' = [tdes EXCEPT !.before = tdes.f,
                            !.f = Tdes_fmt(tdes.type, tdes.obj, tdes.f),
                            !.calls = @ + 1]
    /\ UNCHANGED <<cbc, gcfb, cfb, ctr, ofb, aes>>

DebugAesFmt ==
    /\ DebugLive(aes) /\ aes.calls < MaxFmtCalls
    /\ aes' = [aes EXCEPT !.before = aes.f,
                          !.f = Aes_fmt(aes.obj, aes.f),
                          !.calls = @ + 1]
    /\ UNCHANGED <<cbc, gcfb, cfb, ctr, ofb, tdes>>

DebugNext == DebugTdesFmt \/ DebugAesFmt

SpecDebug == DebugInit /\ [][DebugNext]_vars

\* The last call of fmt on x appended the name of the type of the instance
\* and the braces, whatever the key.
DebugNamesType(x, braces) ==
    (DebugLive(x) /\ x.calls > 0) => x.f = (x.before \o x.type) \o braces

\* C35: Debug output of the cipher types.  Formatting a TdesEde3, TdesEee3,
\* TdesEde2, TdesEee2 or autodetect AES instance with Debug writes a fixed
\* string that names the type of that instance and is the same for every key.
C35_DebugNamesOwnType ==
    DebugNamesType(tdes, " { ... }") /\ DebugNamesType(aes, " { .. }")

==========================================================================
